---------------------------- MODULE Spec2Model ----------------------------
(***************************************************************************)
(* squishRS: a deduplicating, compressed archive.                          *)
(*                                                                         *)
(* The module models                                                       *)
(*   - ChunkStore::insert (util/chunk.rs) with the DashMap shard lock,     *)
(*   - ArchiveWriter::new / pack / process_file / write_files_metadata     *)
(*     (archive/writer.rs) with one rayon task per input file,             *)
(*   - writer_thread and ThreadSafeWriter (fsutil/writer.rs),              *)
(*   - verify_header, write_placeholder_u64, patch_u64 (util/header.rs),   *)
(*   - ArchiveReader::new / unpack / read_chunks / rebuild_files           *)
(*     (archive/reader.rs).                                                *)
(*                                                                         *)
(* The archive is a sequence of bytes with the widths of the format:        *)
(* 16-byte digests, 8-byte and 4-byte little-endian integers.  The chunk   *)
(* size is scaled down, the codec is a run-length code and the digest is   *)
(* an injective code of the chunk bytes (no collision is modelled).        *)
(*                                                                         *)
(* Specifications:                                                         *)
(*   Spec        one pack of a tree, then one unpack of its archive;       *)
(*   SpecNames   the same for files whose names need not be UTF-8;         *)
(*   SpecHeader  a build of any version opens an archive of any version;   *)
(*   SpecUnpack  unpack of an archive whose file table may name digests    *)
(*               that its chunk table lacks;                               *)
(*   SpecFault   one pack in which any step of a worker or of the writer   *)
(*               thread may fail;                                          *)
(*   SpecList    get_summary on an archive found on disk.                  *)
(***************************************************************************)
EXTENDS Integers, Sequences, FiniteSets, TLC

\* ------------------------------------------------------------------ bounds

\* CHUNK_SIZE (util/chunk.rs:11) scaled from 2 MiB to 2 bytes.
CHUNK_SIZE == 2
\* EXPECTED_MAX_CHUNK_SIZE (archive/reader.rs:14), 10 MiB = 5 x CHUNK_SIZE.
EXPECTED_MAX_CHUNK_SIZE == 5 * CHUNK_SIZE

\* Largest number of input files handed to pack.
MaxFiles == 2
\* Number of DashMap shards (each has its own lock).
NumShards == 2
\* Number of distinct byte values in file contents.
NumBytes == 2
\* Capacity of the BufWriter around the output file (8 KiB in std), scaled.
BUF_CAPACITY == 20

Byte == 1..NumBytes

\* ------------------------------------------------------------ pure helpers

Min(a, b) == IF a < b THEN a ELSE b

Max(a, b) == IF a > b THEN a ELSE b

Ok(v)  == [ok |-> TRUE,  val |-> v, err |-> "", path |-> <<>>]
Err(e) == [ok |-> FALSE, val |-> <<>>, err |-> e, path |-> <<>>]
ErrAt(e, p) == [ok |-> FALSE, val |-> <<>>, err |-> e, path |-> p]

IsPrefix(p, s) == Len(p) <= Len(s) /\ SubSeq(s, 1, Len(p)) = p

\* n.to_le_bytes() in w bytes.
RECURSIVE to_le_bytes(_, _)
to_le_bytes(n, w) ==
    IF w = 0 THEN <<>> ELSE <<n % 256>> \o to_le_bytes(n \div 256, w - 1)

\* Values of 2^30 and more are all read as Huge (the model's integers are
\* 32 bits wide; no archive of the model is that long).
Huge == 64 * 256 * 256 * 256

\* u64::from_le_bytes / u32::from_le_bytes.
RECURSIVE from_le_bytes(_)
from_le_bytes(b) ==
    IF b = <<>> THEN 0
    ELSE LET rest == from_le_bytes(Tail(b))
         IN  IF rest >= Huge \div 256 THEN Huge ELSE b[1] + 256 * rest

\* Widths of the format's fields, in bytes.
HASH_LEN == 16
U64_LEN == 8
U32_LEN == 4

u64(n) == to_le_bytes(n, U64_LEN)
u32(n) == to_le_bytes(n, U32_LEN)

\* xxh3_128 of the chunk, as a number.  The digest is a deterministic
\* function of the bytes; on the bounded byte domain it is collision free
\* (the positional value of the bytes in base NumBytes + 1).
RECURSIVE xxh3_128(_)
xxh3_128(chunk) ==
    IF chunk = <<>> THEN 0
    ELSE xxh3_128(SubSeq(chunk, 1, Len(chunk) - 1)) * (NumBytes + 1)
         + chunk[Len(chunk)]

\* hash_chunk: the digest as a [u8; 16].
hash_chunk(chunk) == to_le_bytes(xxh3_128(chunk), HASH_LEN)

\* zstd::bulk::compress, modelled by a run-length code: the payload is the
\* sequence b1, n1, b2, n2, ... of bytes and run lengths.
RECURSIVE compress(_)
compress(chunk) ==
    IF chunk = <<>> THEN <<>>
    ELSE LET b == chunk[1]
             RunLen[i \in 1..(Len(chunk) + 1)] ==
                 IF i > Len(chunk) \/ chunk[i] # b THEN i - 1
                 ELSE RunLen[i + 1]
             n == RunLen[1]
         IN  <<b, n>> \o compress(SubSeq(chunk, n + 1, Len(chunk)))

RECURSIVE Repeat(_, _)
Repeat(b, n) == IF n <= 0 THEN <<>> ELSE <<b>> \o Repeat(b, n - 1)

RECURSIVE Expand(_)
Expand(data) ==
    IF Len(data) < 2 THEN <<>>
    ELSE Repeat(data[1], data[2]) \o Expand(SubSeq(data, 3, Len(data)))

RECURSIVE ExpandedLen(_)
ExpandedLen(data) ==
    IF Len(data) < 2 THEN 0
    ELSE data[2] + ExpandedLen(SubSeq(data, 3, Len(data)))

\* Faulty variant: the decoded size is not held against the capacity.
decompress_unbounded(data, capacity) ==
    IF Len(data) % 2 # 0 \/ \E i \in 1..Len(data) : i % 2 = 0 /\ data[i] < 1
      THEN Err("ReaderError")
    ELSE Ok(Expand(data))

\* zstd::bulk::decompress(data, capacity): fails on a malformed payload and
\* when the decoded size exceeds the capacity.
decompress(data, capacity) ==
    IF Len(data) % 2 # 0 \/ \E i \in 1..Len(data) : i % 2 = 0 /\ data[i] < 1
      THEN Err("ReaderError")
    ELSE IF ExpandedLen(data) > capacity THEN Err("ReaderError")
    ELSE Ok(Expand(data))

\* --------------------------------------------------------------- the state

VARIABLES
    files,          \* pack's input: sequence of [path, data]
    opc,            \* ArchiveWriter::pack: position of the orchestrator
    packResult,     \* what pack returned
    files_metadata, \* pack: the collected (rel_path, size, hashes) tuples
    wpc,            \* process_file task of file i: position
    woff,           \* process_file: bytes of file i read so far
    whashes,        \* process_file: file_chunk_hashes
    wres,           \* process_file: its return value
    store,          \* ChunkStore.primary_store: the set of digests
    shardLock,      \* DashMap: holder of each shard's write lock (0 = free)
    chan,           \* crossbeam channel: messages in flight
    senderOpen,     \* ArchiveWriter.sender is Some
    wtpc,           \* writer_thread: position
    wtmsg,          \* writer_thread: chunk_msg being written
    wtResult,       \* writer_thread: its return value
    joined,         \* ArchiveWriter.writer_handle has been taken and joined
    stream,         \* the output file: its bytes
    wpos,           \* the output file: stream position
    wlog,           \* history: one <<who, offset, length>> per write_all
    wbuf,           \* BufWriter: number of bytes written but not yet flushed
    disk,           \* the output file: its length on disk
    insertSome,     \* history: per digest, insert calls that returned Some
    insertNone,     \* history: per digest, insert calls that returned None
    sent,           \* history: the messages sent on the channel, in order
    received,       \* history: the messages rx.iter() has yielded, in order
    progress_bar,   \* ArchiveWriter.progress_bar is Some
    pb_pos,         \* pack's progress bar: number of inc(1) calls
    rpc,            \* ArchiveReader: position
    rd,             \* ArchiveReader: its fields
    chunk_map,      \* unpack: digest -> decompressed bytes
    entries,        \* rebuild_files: the FileRebuildEntry list
    epc,            \* rebuild_files: position of the task of entry e
    outTree,        \* the output directory: relative path -> bytes
    unpackResult,   \* what unpack returned
    summary,        \* what get_summary returned
    unpack_bar,     \* unpack's progress_bar argument is Some
    unpack_pos,     \* unpack's progress bar: its position
    running_version, \* crate::VERSION of the build that reads the archive
    rpos,           \* ArchiveReader.reader: its stream position
    rcalls,         \* history: the calls made on the ArchiveReader, in order
    upool,          \* the unpacking process: threads of rayon's global pool (0 = not built)
    max_threads,    \* main: the --max-threads argument
    cpus,           \* the machine: number of logical CPUs
    pool,           \* the packing process: threads of rayon's global pool (0 = not built)
    mpc,            \* main, Commands::Pack: position
    walkpc,         \* walk_dir: position of the task of directory entry e
    finished,       \* the process_file tasks that returned Ok and await collect, in that order
    reordered,      \* history: collect gathered results that had not returned in input order
    pack_calls      \* history: number of calls of pack on this ArchiveWriter

writerVars == <<files, opc, packResult, files_metadata, wpc, woff, whashes, wres,
                store, shardLock, chan, senderOpen, wtpc, wtmsg, wtResult, joined,
                stream, wpos, wlog, wbuf, disk, insertSome, insertNone,
                sent, received, progress_bar, pb_pos>>
poolVars == <<max_threads, cpus, pool, mpc, walkpc>>
packVars == <<writerVars, poolVars, finished, reordered, pack_calls>>
readVars == <<rpc, rd, chunk_map, entries, epc, outTree, unpackResult,
              summary, unpack_bar, unpack_pos, running_version, rpos, upool,
              rcalls>>
vars == <<packVars, readVars>>

\* ------------------------------------------------------------------ inputs

SLASH == 47

\* The directory handed to ArchiveWriter::new (input_path), as path components.
InputRoot == <<105>>

\* Components of the i-th file's path under the root: the first file sits in
\* the root ("a"), the others in a sub-directory ("d/b", "d/c", ...).
RelPath(i) == IF i = 1 THEN <<97>> ELSE <<100, 96 + i>>

\* File contents, longest first: two different chunks, two equal chunks, one
\* chunk and a short tail, exactly one chunk, empty.
ContentSeq ==
    << <<1, 2, 1, 1>>, <<1, 1, 1, 1>>, <<1, 1, 1>>, <<1, 1>>, <<>> >>

Contents == { ContentSeq[k] : k \in DOMAIN ContentSeq }

\* The file lists handed to pack: up to MaxFiles files, the i-th at RelPath(i).
\* Which path holds which contents does not matter to pack, so the contents
\* are listed in the order of ContentSeq.
FileLists ==
    UNION { { [i \in 1..n |-> [path |-> InputRoot \o RelPath(i),
                               data |-> ContentSeq[c[i]]]]
              : c \in { d \in [1..n -> DOMAIN ContentSeq] :
                          \A i \in 1..(n - 1) : d[i] <= d[i + 1] } }
            : n \in 0..MaxFiles }

Files == 1..Len(files)

\* The bytes process_file reads at offset off: reader.read fills the buffer
\* up to CHUNK_SIZE bytes or to the end of the file.
Window(data, off) == SubSeq(data, off + 1, Min(off + CHUNK_SIZE, Len(data)))

RECURSIVE WindowsFrom(_, _)
WindowsFrom(data, off) ==
    IF off >= Len(data) THEN <<>>
    ELSE <<Window(data, off)>> \o WindowsFrom(data, off + CHUNK_SIZE)

AllWindows(fs) ==
    UNION { { WindowsFrom(fs[i].data, 0)[k]
              : k \in 1..Len(WindowsFrom(fs[i].data, 0)) } : i \in 1..Len(fs) }

Digests(fs) == { hash_chunk(w) : w \in AllWindows(fs) }

\* A UTF-8 continuation byte.
Cont(b) == 128 <= b /\ b <= 191

\* The length of the UTF-8 sequence at the head of bytes; 0 if none starts
\* there.
Utf8Len(bytes) ==
    IF bytes = <<>> THEN 0
    ELSE LET b == bytes[1]
             n == Len(bytes)
         IN  IF b < 128 THEN 1
             ELSE IF /\ 194 <= b /\ b <= 223 /\ n >= 2 /\ Cont(bytes[2]) THEN 2
             ELSE IF /\ 224 <= b /\ b <= 239 /\ n >= 3
                     /\ Cont(bytes[2]) /\ Cont(bytes[3])
                     /\ (b = 224 => bytes[2] >= 160)
                     /\ (b = 237 => bytes[2] <= 159) THEN 3
             ELSE IF /\ 240 <= b /\ b <= 244 /\ n >= 4
                     /\ Cont(bytes[2]) /\ Cont(bytes[3]) /\ Cont(bytes[4])
                     /\ (b = 240 => bytes[2] >= 144)
                     /\ (b = 244 => bytes[2] <= 143) THEN 4
             ELSE 0

RECURSIVE valid_utf8(_)
valid_utf8(bytes) ==
    \/ bytes = <<>>
    \/ /\ Utf8Len(bytes) > 0
       /\ valid_utf8(SubSeq(bytes, Utf8Len(bytes) + 1, Len(bytes)))

\* std::str::from_utf8 and String::from_utf8.
from_utf8(bytes) == IF valid_utf8(bytes) THEN Ok(bytes) ELSE Err("InvalidUtf8")

\* Path::to_string_lossy: the bytes of the path, each byte that starts no
\* UTF-8 sequence replaced by U+FFFD (EF BF BD).
RECURSIVE to_string_lossy(_)
to_string_lossy(bytes) ==
    IF bytes = <<>> THEN <<>>
    ELSE IF Utf8Len(bytes) = 0
      THEN <<239, 191, 189>> \o to_string_lossy(Tail(bytes))
    ELSE SubSeq(bytes, 1, Utf8Len(bytes))
           \o to_string_lossy(SubSeq(bytes, Utf8Len(bytes) + 1, Len(bytes)))

\* Path::strip_prefix, on components.
strip_prefix(path, base) ==
    IF IsPrefix(base, path) THEN Ok(SubSeq(path, Len(base) + 1, Len(path)))
    ELSE Err("StripPrefixError")

\* The bytes of a relative path: its components joined by '/'.
RECURSIVE path_bytes(_)
path_bytes(comps) ==
    IF comps = <<>> THEN <<>>
    ELSE IF Len(comps) = 1 THEN <<comps[1]>>
    ELSE <<comps[1], SLASH>> \o path_bytes(Tail(comps))

\* ------------------------------------------------------------ util/header.rs

PREFIX == <<115, 113, 117, 105, 115, 104>>        \* b"squish"
\* The separator of VERSION.split('.').
DOT == 46
\* The running VERSION (crate::VERSION), "0.3.1": the crate's version string.
VERSION == <<48, DOT, 51, DOT, 49>>

magic_version(version) == PREFIX \o version

\* BufWriter::flush_buf: the pending bytes, which end at the stream position,
\* reach the file.
flush(f) == [f EXCEPT !.buf = 0, !.disk = Max(f.disk, f.pos)]

\* BufWriter::seek: flush, then move the stream position.
seek(f, pos) == [flush(f) EXCEPT !.pos = pos]

\* One write_all at the stream position: overwrite in place and extend.
\* A file is [s |-> bytes, pos |-> stream position, log |-> the writes,
\* buf |-> bytes pending in the BufWriter, disk |-> length on disk].
\* BufWriter::write_all keeps the bytes when they fit in the spare capacity;
\* otherwise it flushes what is pending and hands bytes of at least the
\* capacity straight to the file.
write_all(f, bytes, who) ==
    LET g == IF Len(bytes) > BUF_CAPACITY - f.buf THEN flush(f) ELSE f
        direct == Len(bytes) >= BUF_CAPACITY
    IN  [s    |-> SubSeq(f.s, 1, f.pos) \o bytes
                  \o SubSeq(f.s, f.pos + Len(bytes) + 1, Len(f.s)),
         pos  |-> f.pos + Len(bytes),
         log  |-> Append(f.log, <<who, f.pos, Len(bytes)>>),
         buf  |-> IF direct THEN 0 ELSE g.buf + Len(bytes),
         disk |-> IF direct THEN Max(g.disk, f.pos + Len(bytes)) ELSE g.disk]

write_header(f, version, who) == write_all(f, magic_version(version), who)

write_timestamp(f, now, who) == write_all(f, u64(now), who)

\* Returns the position at which the placeholder was written.
write_placeholder_u64(f, who) ==
    [file |-> write_all(f, u64(0), who), pos |-> f.pos]

\* Faulty variant: the seek to the placeholder is missing; the value is appended.
patch_u64_no_seek(f, pos, value, who) == write_all(f, u64(value), who)

\* Faulty variant: the final seek to the end is missing.
patch_u64_no_seek_end(f, pos, value, who) ==
    flush(write_all(seek(f, pos), u64(value), who))

\* seek(Start(pos)); write_all(value); seek(End(0)).
patch_u64(f, pos, value, who) ==
    LET g == write_all(seek(f, pos), u64(value), who)
    IN  seek(g, Len(g.s))

\* ---------------------------------------------------- ArchiveWriter::new

\* The creation time written by write_timestamp.
TimeStamps == {1000000000}

EmptyFile == [s |-> <<>>, pos |-> 0, log |-> <<>>, buf |-> 0, disk |-> 0]

\* Faulty variant: new returns without flushing the BufWriter.
ArchiveWriterNew_no_flush(version, now) ==
    write_placeholder_u64(
        write_timestamp(write_header(EmptyFile, version, "new"), now, "new"),
        "new")

\* new: File::create, write_header, write_timestamp, write_placeholder_u64,
\* flush.  Yields the file and chunks_count_position.
ArchiveWriterNew(version, now) ==
    LET r == write_placeholder_u64(
                 write_timestamp(write_header(EmptyFile, version, "new"), now, "new"),
                 "new")
    IN  [file |-> flush(r.file), pos |-> r.pos]

chunks_count_position == ArchiveWriterNew(VERSION, 0).pos

NoMsg == [hash |-> <<>>, compressed_data |-> <<>>, original_size |-> 0]

\* default_value_t of --max-threads.
DEFAULT_MAX_THREADS == 30

\* The directory entries walk_dir meets.
WalkEntries == 1..MaxFiles

\* main has capped the pool at the default of --max-threads and walked the
\* input directory; the machine has at least as many CPUs.
InitMainWalked ==
    /\ max_threads = DEFAULT_MAX_THREADS
    /\ cpus = DEFAULT_MAX_THREADS
    /\ pool = DEFAULT_MAX_THREADS
    /\ mpc = "pack"
    /\ walkpc = [e \in WalkEntries |-> "done"]

\* The state ArchiveWriter::new leaves.
InitWriter(fs, sink) ==
    /\ finished = <<>>
    /\ reordered = FALSE
    /\ pack_calls = 0
    /\ files = fs
    /\ progress_bar = sink
    /\ pb_pos = 0
    /\ sent = <<>> /\ received = <<>>
    /\ opc = "created"
    /\ packResult = Err("none")
    /\ files_metadata = <<>>
    /\ wpc = [i \in Files |-> "start"]
    /\ woff = [i \in Files |-> 0]
    /\ whashes = [i \in Files |-> <<>>]
    /\ wres = [i \in Files |-> Err("none")]
    /\ store = {}
    /\ shardLock = [s \in 0..(NumShards - 1) |-> 0]
    /\ chan = <<>>
    /\ senderOpen = TRUE
    /\ wtpc = "recv"
    /\ wtmsg = NoMsg
    /\ wtResult = Err("none")
    /\ joined = FALSE
    /\ \E now \in TimeStamps :
         LET f == ArchiveWriterNew(VERSION, now).file
         IN  /\ stream = f.s /\ wpos = f.pos /\ wlog = f.log
             /\ wbuf = f.buf /\ disk = f.disk
    /\ insertSome = [d \in Digests(files) |-> 0]
    /\ insertNone = [d \in Digests(files) |-> 0]

\* ArchiveWriter::new in a process whose pool is in place.
InitPackSink(fs, sink) ==
    /\ InitWriter(fs, sink)
    /\ InitMainWalked

\* The command line always hands a progress bar to ArchiveWriter::new.
InitPackWith(fs) == InitPackSink(fs, TRUE)

InitPack == \E fs \in FileLists : InitPackWith(fs)

TheFile == [s |-> stream, pos |-> wpos, log |-> wlog, buf |-> wbuf, disk |-> disk]

SetFile(f) ==
    /\ stream' = f.s /\ wpos' = f.pos /\ wlog' = f.log
    /\ wbuf' = f.buf /\ disk' = f.disk

\* Faulty variant: the bar is advanced by the number given even when it is
\* absent.
inc_unconditional(sink, pos) == pos + 1

\* if let Some(pb) = progress_bar { pb.inc(1) }: the position of the bar after
\* the statement.
inc(sink, pos) == IF sink THEN pos + 1 ELSE pos

\* ------------------------------------------------- ChunkStore (util/chunk.rs)

\* DashMap: the shard a key lives in.
Shard(hash) == from_le_bytes(hash) % NumShards

\* Faulty variant: entry does not take the shard lock (a read-then-write insert).
shard_locked_never(hash) == FALSE

\* DashMap::entry blocks while another thread holds the shard's write lock.
shard_locked(hash) == shardLock[Shard(hash)] # 0

\* Faulty variant: every chunk is treated as first sight.
occupied_never(hash) == FALSE

\* The Entry::Occupied arm of primary_store.entry(hash).
occupied(hash) == hash \in store

\* Faulty variant: a digest met again counts as one more entry.
store_len_dups ==
    Cardinality(store) + Cardinality({ d \in DOMAIN insertNone : insertNone[d] > 0 })

\* ThreadPoolBuilder::new().num_threads(n).build_global(): fails once the
\* global pool exists; num_threads(0) leaves the size to rayon, which takes
\* the number of logical CPUs.
build_global(current, n, ncpus) ==
    IF current # 0 THEN Err("GlobalPoolAlreadyInitialized")
    ELSE Ok(IF n = 0 THEN ncpus ELSE n)

\* The global pool a parallel iterator runs on: the one installed, or else a
\* default pool built on first use, one thread per logical CPU.
global_registry(current, ncpus) ==
    IF current # 0 THEN current ELSE ncpus

\* The process_file tasks, the rebuild tasks and the walk_dir tasks that
\* hold a thread of their pool.
running_process_file ==
    Cardinality({j \in DOMAIN wpc : wpc[j] \in {"read", "vacant", "send"}})
running_rebuild == Cardinality({e \in DOMAIN epc : epc[e] = "write"})
running_walk == Cardinality({e \in DOMAIN walkpc : walkpc[e] = "run"})

\* ChunkStore::len.
store_len == Cardinality(store)

\* ---------------------------------- ArchiveWriter::process_file (one per file)

\* Faulty variant: the result of strip_prefix is not looked at before the file
\* is opened.
WorkerStart_no_check(i) ==
    /\ opc = "map" /\ wpc[i] = "start"
    /\ running_process_file < pool
    /\ wpc' = [wpc EXCEPT ![i] = "read"] /\ wres' = wres
    /\ UNCHANGED <<files, opc, packResult, files_metadata, woff, whashes, store,
                   shardLock, chan, senderOpen, wtpc, wtmsg, wtResult, joined,
                   stream, wpos, wlog, wbuf, disk, insertSome, insertNone, sent, received, progress_bar, pb_pos,
                   poolVars, finished, reordered, pack_calls, readVars>>

\* strip_prefix and File::open.
WorkerStart(i) ==
    /\ opc = "map" /\ wpc[i] = "start"
    /\ running_process_file < pool
    /\ IF strip_prefix(files[i].path, InputRoot).ok
         THEN wpc' = [wpc EXCEPT ![i] = "read"] /\ wres' = wres
         ELSE /\ wpc' = [wpc EXCEPT ![i] = "failed"]
              /\ wres' = [wres EXCEPT ![i] = Err("StripPrefixError")]
    /\ UNCHANGED <<files, opc, packResult, files_metadata, woff, whashes, store,
                   shardLock, chan, senderOpen, wtpc, wtmsg, wtResult, joined,
                   stream, wpos, wlog, wbuf, disk, insertSome, insertNone, sent, received, progress_bar, pb_pos,
                   poolVars, finished, reordered, pack_calls, readVars>>

\* Faulty variant: a read that fills the buffer to the end of the file is
\* followed by one more, empty, chunk.
WorkerFinish_trailing(i) ==
    /\ opc = "map" /\ wpc[i] = "read"
    /\ woff[i] >= Len(files[i].data)
    /\ wpc' = [wpc EXCEPT ![i] = "done"]
    /\ pb_pos' = inc(progress_bar, pb_pos)
    /\ finished' = Append(finished, i)
    /\ wres' = [wres EXCEPT ![i] =
                  Ok([path |-> to_string_lossy(
                                   path_bytes(strip_prefix(files[i].path, InputRoot).val)),
                      size |-> Len(files[i].data),
                      hashes |-> IF Len(files[i].data) > 0
                                   /\ Len(files[i].data) % CHUNK_SIZE = 0
                                  THEN Append(whashes[i], hash_chunk(<<>>))
                                  ELSE whashes[i]])]
    /\ UNCHANGED <<files, opc, packResult, files_metadata, woff, whashes, store,
                   shardLock, chan, senderOpen, wtpc, wtmsg, wtResult, joined,
                   stream, wpos, wlog, wbuf, disk, insertSome, insertNone, sent, received, progress_bar, poolVars, reordered, pack_calls, readVars>>

\* reader.read returned 0: the loop ends and process_file returns
\* (rel_path_str, orig_file_size, file_chunk_hashes); the closure of pack then
\* advances the progress bar, if there is one.
WorkerFinish(i) ==
    /\ opc = "map" /\ wpc[i] = "read"
    /\ woff[i] >= Len(files[i].data)
    /\ wpc' = [wpc EXCEPT ![i] = "done"]
    /\ pb_pos' = inc(progress_bar, pb_pos)
    /\ finished' = Append(finished, i)
    /\ wres' = [wres EXCEPT ![i] =
                  Ok([path |-> to_string_lossy(
                                   path_bytes(strip_prefix(files[i].path, InputRoot).val)),
                      size |-> Len(files[i].data),
                      hashes |-> whashes[i]])]
    /\ UNCHANGED <<files, opc, packResult, files_metadata, woff, whashes, store,
                   shardLock, chan, senderOpen, wtpc, wtmsg, wtResult, joined,
                   stream, wpos, wlog, wbuf, disk, insertSome, insertNone, sent, received, progress_bar, poolVars, reordered, pack_calls, readVars>>

\* Faulty variant: a duplicate chunk's digest is not pushed to file_chunk_hashes.
WorkerEntry_no_push(i) ==
    /\ opc = "map" /\ wpc[i] = "read"
    /\ woff[i] < Len(files[i].data)
    /\ LET slice == Window(files[i].data, woff[i])
           hash == hash_chunk(slice)
       IN  /\ shardLock[Shard(hash)] = 0
           /\ IF hash \in store
                THEN /\ insertNone' = [insertNone EXCEPT ![hash] = @ + 1]
                     /\ woff' = [woff EXCEPT ![i] = @ + Len(slice)]
                     /\ UNCHANGED <<wpc, shardLock, whashes>>
                ELSE /\ shardLock' = [shardLock EXCEPT ![Shard(hash)] = i]
                     /\ wpc' = [wpc EXCEPT ![i] = "vacant"]
                     /\ UNCHANGED <<insertNone, whashes, woff>>
    /\ UNCHANGED <<files, opc, packResult, files_metadata, wres, store, chan,
                   senderOpen, wtpc, wtmsg, wtResult, joined, stream, wpos,
                   wlog, wbuf, disk, insertSome, sent, received, progress_bar, pb_pos,
                   poolVars, finished, reordered, pack_calls, readVars>>

\* Faulty variant: the vacant entry does not hold the shard, so a second call with
\* the same bytes can find the digest absent before the first has inserted it.
WorkerEntry_unlocked(i) ==
    /\ opc = "map" /\ wpc[i] = "read"
    /\ woff[i] < Len(files[i].data)
    /\ LET slice == Window(files[i].data, woff[i])
           hash == hash_chunk(slice)
       IN  /\ ~shard_locked(hash)
           /\ IF occupied(hash)
                THEN /\ insertNone' = [insertNone EXCEPT ![hash] = @ + 1]
                     /\ whashes' = [whashes EXCEPT ![i] = Append(@, hash)]
                     /\ woff' = [woff EXCEPT ![i] = @ + Len(slice)]
                     /\ UNCHANGED wpc
                ELSE /\ wpc' = [wpc EXCEPT ![i] = "vacant"]
                     /\ UNCHANGED <<insertNone, whashes, woff>>
    /\ UNCHANGED <<files, opc, packResult, files_metadata, wres, store, chan,
                   senderOpen, wtpc, wtmsg, wtResult, joined, stream, wpos,
                   wlog, wbuf, disk, insertSome, shardLock, sent, received, progress_bar, pb_pos,
                   poolVars, finished, reordered, pack_calls, readVars>>

\* reader.read returned a window; insert hashes it and calls
\* primary_store.entry(hash) under the shard lock.  Occupied: insert returns
\* None and the digest is pushed.  Vacant: the lock stays held.
WorkerEntry(i) ==
    /\ opc = "map" /\ wpc[i] = "read"
    /\ woff[i] < Len(files[i].data)
    /\ LET slice == Window(files[i].data, woff[i])
           hash == hash_chunk(slice)
       IN  /\ ~shard_locked(hash)
           /\ IF occupied(hash)
                THEN /\ insertNone' = [insertNone EXCEPT ![hash] = @ + 1]
                     /\ whashes' = [whashes EXCEPT ![i] = Append(@, hash)]
                     /\ woff' = [woff EXCEPT ![i] = @ + Len(slice)]
                     /\ UNCHANGED <<wpc, shardLock>>
                ELSE /\ shardLock' = [shardLock EXCEPT ![Shard(hash)] = i]
                     /\ wpc' = [wpc EXCEPT ![i] = "vacant"]
                     /\ UNCHANGED <<insertNone, whashes, woff>>
    /\ UNCHANGED <<files, opc, packResult, files_metadata, wres, store, chan,
                   senderOpen, wtpc, wtmsg, wtResult, joined, stream, wpos,
                   wlog, wbuf, disk, insertSome, sent, received, progress_bar, pb_pos,
                   poolVars, finished, reordered, pack_calls, readVars>>

\* Vacant: compress, entry.insert(()) (which releases the lock), return Some.
WorkerInsert(i) ==
    /\ opc = "map" /\ wpc[i] = "vacant"
    /\ LET hash == hash_chunk(Window(files[i].data, woff[i]))
       IN  /\ store' = store \cup {hash}
           /\ shardLock' = [shardLock EXCEPT ![Shard(hash)] = 0]
           /\ insertSome' = [insertSome EXCEPT ![hash] = @ + 1]
    /\ wpc' = [wpc EXCEPT ![i] = "send"]
    /\ UNCHANGED <<files, opc, packResult, files_metadata, woff, whashes, wres,
                   chan, senderOpen, wtpc, wtmsg, wtResult, joined, stream,
                   wpos, wlog, wbuf, disk, insertNone, sent, received, progress_bar, pb_pos,
                   poolVars, finished, reordered, pack_calls, readVars>>

\* Faulty variant: the message carries the digest of the whole buffer (the window
\* padded to CHUNK_SIZE) rather than that of the bytes read.
ChunkMessage_whole_buffer(slice) ==
    [hash |-> hash_chunk(slice \o [k \in 1..(CHUNK_SIZE - Len(slice)) |-> 1]),
     compressed_data |-> compress(slice),
     original_size |-> CHUNK_SIZE]

\* The message process_file builds from insert's Some(compressed).
ChunkMessage(slice) ==
    [hash |-> hash_chunk(slice),
     compressed_data |-> compress(slice),
     original_size |-> CHUNK_SIZE]          \* chunk_buf.len()

\* Faulty variant: the worker writes the record to the output stream itself, one
\* write_all per field, instead of sending it to the writer thread.
WorkerSend_direct(i) ==
    /\ opc = "map" /\ wpc[i] = "send"
    /\ LET slice == Window(files[i].data, woff[i])
           msg == ChunkMessage(slice)
           f1 == write_all(TheFile, msg.hash, "worker")
           f2 == write_all(f1, u64(msg.original_size), "worker")
           f3 == write_all(f2, u64(Len(msg.compressed_data)), "worker")
       IN  /\ SetFile(write_all(f3, msg.compressed_data, "worker"))
           /\ whashes' = [whashes EXCEPT ![i] = Append(@, hash_chunk(slice))]
           /\ woff' = [woff EXCEPT ![i] = @ + Len(slice)]
           /\ wpc' = [wpc EXCEPT ![i] = "read"]
    /\ UNCHANGED <<files, opc, packResult, files_metadata, store, shardLock,
                   senderOpen, wtpc, wtmsg, wtResult, joined, chan, wres,
                   insertSome, insertNone, sent, received, progress_bar, pb_pos,
                   poolVars, finished, reordered, pack_calls, readVars>>

\* Faulty variant: try_send on a channel of capacity one; a message that
\* finds the channel full is dropped.
WorkerSend_try_send(i) ==
    /\ opc = "map" /\ wpc[i] = "send"
    /\ LET slice == Window(files[i].data, woff[i])
       IN  IF senderOpen /\ wtpc # "done"
             THEN /\ chan' = IF chan = <<>> THEN Append(chan, ChunkMessage(slice)) ELSE chan
                  /\ sent' = Append(sent, ChunkMessage(slice))
                  /\ whashes' = [whashes EXCEPT ![i] = Append(@, hash_chunk(slice))]
                  /\ woff' = [woff EXCEPT ![i] = @ + Len(slice)]
                  /\ wpc' = [wpc EXCEPT ![i] = "read"]
                  /\ wres' = wres
             ELSE /\ wpc' = [wpc EXCEPT ![i] = "failed"]
                  /\ wres' = [wres EXCEPT ![i] = Err("SenderError")]
                  /\ UNCHANGED <<chan, sent, whashes, woff>>
    /\ UNCHANGED <<files, opc, packResult, files_metadata, store, shardLock,
                   senderOpen, wtpc, wtmsg, wtResult, joined, stream, wpos,
                   wlog, wbuf, disk, insertSome, insertNone, received, progress_bar, pb_pos,
                   poolVars, finished, reordered, pack_calls, readVars>>

\* sender.send(msg), then file_chunk_hashes.push(result.hash).
WorkerSend(i) ==
    /\ opc = "map" /\ wpc[i] = "send"
    /\ LET slice == Window(files[i].data, woff[i])
       IN  IF senderOpen /\ wtpc # "done"
             THEN /\ chan' = Append(chan, ChunkMessage(slice))
                  /\ sent' = Append(sent, ChunkMessage(slice))
                  /\ whashes' = [whashes EXCEPT ![i] = Append(@, hash_chunk(slice))]
                  /\ woff' = [woff EXCEPT ![i] = @ + Len(slice)]
                  /\ wpc' = [wpc EXCEPT ![i] = "read"]
                  /\ wres' = wres
             ELSE /\ wpc' = [wpc EXCEPT ![i] = "failed"]
                  /\ wres' = [wres EXCEPT ![i] = Err("SenderError")]
                  /\ UNCHANGED <<chan, sent, whashes, woff>>
    /\ UNCHANGED <<files, opc, packResult, files_metadata, store, shardLock,
                   senderOpen, wtpc, wtmsg, wtResult, joined, stream, wpos,
                   wlog, wbuf, disk, insertSome, insertNone, received, progress_bar, pb_pos,
                   poolVars, finished, reordered, pack_calls, readVars>>

\* ------------------------------------------- writer_thread (fsutil/writer.rs)

\* Faulty variant: the loop takes the newest message of the channel.
WtRecv_newest ==
    /\ wtpc = "recv" /\ chan # <<>>
    /\ wtmsg' = chan[Len(chan)]
    /\ chan' = SubSeq(chan, 1, Len(chan) - 1)
    /\ received' = Append(received, chan[Len(chan)])
    /\ wtpc' = "hash"
    /\ UNCHANGED <<files, opc, packResult, files_metadata, wpc, woff, whashes,
                   wres, store, shardLock, senderOpen, wtResult, joined, stream,
                   wpos, wlog, wbuf, disk, insertSome, insertNone, sent, progress_bar, pb_pos,
                   poolVars, finished, reordered, pack_calls, readVars>>

\* rx.iter() yields the next message.
WtRecv ==
    /\ wtpc = "recv" /\ chan # <<>>
    /\ wtmsg' = Head(chan)
    /\ chan' = Tail(chan)
    /\ received' = Append(received, Head(chan))
    /\ wtpc' = "hash"
    /\ UNCHANGED <<files, opc, packResult, files_metadata, wpc, woff, whashes,
                   wres, store, shardLock, senderOpen, wtResult, joined, stream,
                   wpos, wlog, wbuf, disk, insertSome, insertNone, sent, progress_bar, pb_pos,
                   poolVars, finished, reordered, pack_calls, readVars>>

\* The bytes the thread writes at each position of the loop body.
WtField(pc) ==
    CASE pc = "hash" -> wtmsg.hash
      [] pc = "orig" -> u64(wtmsg.original_size)
      [] pc = "clen" -> u64(Len(wtmsg.compressed_data))
      [] pc = "data" -> wtmsg.compressed_data

WtNext(pc) ==
    CASE pc = "hash" -> "orig"
      [] pc = "orig" -> "clen"
      [] pc = "clen" -> "data"
      [] pc = "data" -> "recv"

\* One writer.write_all of the loop body (ThreadSafeWriter locks per write).
WtWrite ==
    /\ wtpc \in {"hash", "orig", "clen", "data"}
    /\ SetFile(write_all(TheFile, WtField(wtpc), "writer_thread"))
    /\ wtpc' = WtNext(wtpc)
    /\ UNCHANGED <<files, opc, packResult, files_metadata, wpc, woff, whashes,
                   wres, store, shardLock, chan, senderOpen, wtmsg, wtResult,
                   joined, insertSome, insertNone, sent, received, progress_bar, pb_pos,
                   poolVars, finished, reordered, pack_calls, readVars>>

\* The channel is empty and every sender is dropped: the loop ends, the
\* thread flushes and returns Ok.
WtClose ==
    /\ wtpc = "recv" /\ chan = <<>> /\ ~senderOpen
    /\ wtpc' = "done"
    /\ wtResult' = Ok(<<>>)
    /\ SetFile(flush(TheFile))
    /\ UNCHANGED <<files, opc, packResult, files_metadata, wpc, woff, whashes,
                   wres, store, shardLock, chan, senderOpen, wtmsg, joined,
                   insertSome, insertNone, sent, received, progress_bar, pb_pos,
                   poolVars, finished, reordered, pack_calls, readVars>>

\* ------------------------------------------------------ ArchiveWriter::pack

\* files.par_iter().map(process_file): the tasks become runnable.
PackStart ==
    /\ mpc = "pack"
    /\ opc = "created"
    /\ opc' = "map"
    /\ pool' = global_registry(pool, cpus)
    /\ pack_calls' = pack_calls + 1
    /\ UNCHANGED <<files, packResult, files_metadata, wpc, woff, whashes, wres,
                   store, shardLock, chan, senderOpen, wtpc, wtmsg, wtResult,
                   joined, stream, wpos, wlog, wbuf, disk, insertSome, insertNone, sent, received, progress_bar, pb_pos,
                   max_threads, cpus, mpc, walkpc, finished, reordered, readVars>>

\* TRUE iff the tasks of the sequence q returned in the order of the input list.
in_input_order(q) == \A a, b \in 1..Len(q) : a < b => q[a] < q[b]

\* Faulty variant: the count is patched as soon as the tasks have ended,
\* before their results are looked at.
PackCollect_patch_first ==
    /\ opc = "map"
    /\ \A i \in Files : wpc[i] \in {"done", "failed", "skipped", "panicked"}
    /\ SetFile(patch_u64(TheFile, chunks_count_position, store_len, "pack"))
    /\ IF \E i \in Files : wpc[i] = "panicked"
         THEN /\ opc' = "unwound"
              /\ UNCHANGED <<packResult, files_metadata>>
         ELSE IF \E i \in Files : wpc[i] = "failed"
         THEN /\ opc' = "failed"
              /\ \E i \in Files : /\ wpc[i] = "failed"
                                  /\ packResult' = Err(wres[i].err)
              /\ UNCHANGED files_metadata
         ELSE /\ opc' = "drop"
              /\ files_metadata' = [i \in Files |-> wres[i].val]
              /\ UNCHANGED packResult
    /\ finished' = <<>>
    /\ reordered' = (reordered \/ ~in_input_order(finished))
    /\ UNCHANGED <<files, wpc, woff, whashes, wres, store, shardLock, chan,
                   senderOpen, wtpc, wtmsg, wtResult, joined,
                   insertSome, insertNone, sent, received, progress_bar, pb_pos,
                   poolVars, pack_calls, readVars>>

\* Faulty variant: the results are collected in the order the tasks returned.
PackCollect_completion_order ==
    /\ opc = "map"
    /\ \A i \in Files : wpc[i] \in {"done", "failed", "skipped", "panicked"}
    /\ IF \E i \in Files : wpc[i] = "panicked"
         THEN /\ opc' = "unwound"
              /\ UNCHANGED <<packResult, files_metadata>>
         ELSE IF \E i \in Files : wpc[i] = "failed"
         THEN /\ opc' = "failed"
              /\ \E i \in Files : /\ wpc[i] = "failed"
                                  /\ packResult' = Err(wres[i].err)
              /\ UNCHANGED files_metadata
         ELSE /\ opc' = "drop"
              /\ files_metadata' = [k \in 1..Len(finished) |-> wres[finished[k]].val]
              /\ UNCHANGED packResult
    /\ finished' = <<>>
    /\ reordered' = (reordered \/ ~in_input_order(finished))
    /\ UNCHANGED <<files, wpc, woff, whashes, wres, store, shardLock, chan,
                   senderOpen, wtpc, wtmsg, wtResult, joined, stream, wpos,
                   wlog, wbuf, disk, insertSome, insertNone, sent, received, progress_bar, pb_pos,
                   poolVars, pack_calls, readVars>>

\* collect::<Result<Vec<_>, _>>()?: the results in input order, or the error
\* of one failed task; a panic of a task is resumed in pack once the tasks
\* have ended.
PackCollect ==
    /\ opc = "map"
    /\ \A i \in Files : wpc[i] \in {"done", "failed", "skipped", "panicked"}
    /\ IF \E i \in Files : wpc[i] = "panicked"
         THEN /\ opc' = "unwound"
              /\ UNCHANGED <<packResult, files_metadata>>
         ELSE IF \E i \in Files : wpc[i] = "failed"
         THEN /\ opc' = "failed"
              /\ \E i \in Files : /\ wpc[i] = "failed"
                                  /\ packResult' = Err(wres[i].err)
              /\ UNCHANGED files_metadata
         ELSE /\ opc' = "drop"
              /\ files_metadata' = [i \in Files |-> wres[i].val]
              /\ UNCHANGED packResult
    /\ finished' = <<>>
    /\ reordered' = (reordered \/ ~in_input_order(finished))
    /\ UNCHANGED <<files, wpc, woff, whashes, wres, store, shardLock, chan,
                   senderOpen, wtpc, wtmsg, wtResult, joined, stream, wpos,
                   wlog, wbuf, disk, insertSome, insertNone, sent, received, progress_bar, pb_pos,
                   poolVars, pack_calls, readVars>>

\* Faulty variant: the sender is dropped and pack goes on without joining the thread.
PackDropSender_no_join ==
    /\ opc = "drop"
    /\ senderOpen' = FALSE
    /\ opc' = "patch"
    /\ UNCHANGED <<files, packResult, files_metadata, wpc, woff, whashes, wres,
                   store, shardLock, chan, wtpc, wtmsg, wtResult, joined,
                   stream, wpos, wlog, wbuf, disk, insertSome, insertNone, sent, received, progress_bar, pb_pos,
                   poolVars, finished, reordered, pack_calls, readVars>>

\* Faulty variant: pack goes on to the join with the sender still in place.
PackDropSender_keep_sender ==
    /\ opc = "drop"
    /\ opc' = "join"
    /\ UNCHANGED <<files, packResult, files_metadata, wpc, woff, whashes, wres,
                   store, shardLock, chan, senderOpen, wtpc, wtmsg, wtResult, joined,
                   stream, wpos, wlog, wbuf, disk, insertSome, insertNone, sent, received, progress_bar, pb_pos,
                   poolVars, finished, reordered, pack_calls, readVars>>

\* self.sender.take(), drop(sender).
PackDropSender ==
    /\ opc = "drop"
    /\ senderOpen' = FALSE
    /\ opc' = "join"
    /\ UNCHANGED <<files, packResult, files_metadata, wpc, woff, whashes, wres,
                   store, shardLock, chan, wtpc, wtmsg, wtResult, joined,
                   stream, wpos, wlog, wbuf, disk, insertSome, insertNone, sent, received, progress_bar, pb_pos,
                   poolVars, finished, reordered, pack_calls, readVars>>

\* JoinHandle::join blocks until the thread has returned.
thread_returned == wtpc = "done"

\* Faulty variant: the thread's result is discarded after the join.
PackJoin_ignore_result ==
    /\ opc = "join"
    /\ thread_returned
    /\ joined' = TRUE
    /\ opc' = "patch" /\ UNCHANGED packResult
    /\ UNCHANGED <<files, files_metadata, wpc, woff, whashes, wres, store,
                   shardLock, chan, senderOpen, wtpc, wtmsg, wtResult, stream,
                   wpos, wlog, wbuf, disk, insertSome, insertNone, sent, received, progress_bar, pb_pos,
                   poolVars, finished, reordered, pack_calls, readVars>>

\* self.writer_handle.take(), handle.join()?.
PackJoin ==
    /\ opc = "join"
    /\ thread_returned
    /\ joined' = TRUE
    /\ IF wtResult.ok
         THEN opc' = "patch" /\ UNCHANGED packResult
         ELSE opc' = "failed" /\ packResult' = Err("Writer Thread Failed")
    /\ UNCHANGED <<files, files_metadata, wpc, woff, whashes, wres, store,
                   shardLock, chan, senderOpen, wtpc, wtmsg, wtResult, stream,
                   wpos, wlog, wbuf, disk, insertSome, insertNone, sent, received, progress_bar, pb_pos,
                   poolVars, finished, reordered, pack_calls, readVars>>

\* patch_u64(guard, chunks_count_position, chunk_store.len()).
PackPatch ==
    /\ opc = "patch"
    /\ SetFile(patch_u64(TheFile, chunks_count_position, store_len, "pack"))
    /\ opc' = "meta"
    /\ UNCHANGED <<files, packResult, files_metadata, wpc, woff, whashes, wres,
                   store, shardLock, chan, senderOpen, wtpc, wtmsg, wtResult,
                   joined, insertSome, insertNone, sent, received, progress_bar, pb_pos,
                   poolVars, finished, reordered, pack_calls, readVars>>

\* Concatenation of a sequence of byte strings.
RECURSIVE Concat(_)
Concat(ss) == IF ss = <<>> THEN <<>> ELSE ss[1] \o Concat(Tail(ss))

\* Faulty variant: the size written is the number of chunks times CHUNK_SIZE.
MetaEntryWrites_padded_size(m) ==
    <<u32(Len(m.path)), m.path, u64(Len(m.hashes) * CHUNK_SIZE), u32(Len(m.hashes))>>
      \o m.hashes

\* The writes of write_files_metadata for one file.
MetaEntryWrites(m) ==
    <<u32(Len(m.path)), m.path, u64(m.size), u32(Len(m.hashes))>> \o m.hashes

\* Faulty variant: nothing is written for an empty list of files.
MetaWrites_skip_empty(meta) ==
    IF meta = <<>> THEN <<>>
    ELSE <<u32(Len(meta))>> \o Concat([i \in 1..Len(meta) |-> MetaEntryWrites(meta[i])])

\* The writes of write_files_metadata: file count, then each file.
MetaWrites(meta) ==
    <<u32(Len(meta))>> \o Concat([i \in 1..Len(meta) |-> MetaEntryWrites(meta[i])])

\* One write_all per field, in order (the file after each write is bound
\* once, as g, before the next write is applied to it).
RECURSIVE write_each(_, _, _)
write_each(f, fields, who) ==
    IF fields = <<>> THEN f
    ELSE CHOOSE r \in { write_each(g, Tail(fields), who) :
                           g \in {write_all(f, fields[1], who)} } : TRUE

\* Faulty variant: the File Table is written but not flushed.
write_files_metadata_no_flush(f, meta, who) == write_each(f, MetaWrites(meta), who)

\* write_files_metadata, under one lock of the writer: the writes, then flush.
write_files_metadata(f, meta, who) == flush(write_each(f, MetaWrites(meta), who))

PackMeta ==
    /\ opc = "meta"
    /\ SetFile(write_files_metadata(TheFile, files_metadata, "pack"))
    /\ opc' = "size"
    /\ UNCHANGED <<files, packResult, files_metadata, wpc, woff, whashes, wres,
                   store, shardLock, chan, senderOpen, wtpc, wtmsg, wtResult,
                   joined, insertSome, insertNone, sent, received, progress_bar, pb_pos,
                   poolVars, finished, reordered, pack_calls, readVars>>

\* file.metadata()?.len().
PackSize ==
    /\ opc = "size"
    /\ packResult' = Ok(disk)
    /\ opc' = "done"
    /\ UNCHANGED <<files, files_metadata, wpc, woff, whashes, wres, store,
                   shardLock, chan, senderOpen, wtpc, wtmsg, wtResult, joined,
                   stream, wpos, wlog, wbuf, disk, insertSome, insertNone, sent, received, progress_bar, pb_pos,
                   poolVars, finished, reordered, pack_calls, readVars>>

\* ------------------------------------------------- verify_header (header.rs)

\* reader.read_exact of n bytes at position pos of the bytes a.
read_exact(a, pos, n) ==
    IF pos + n <= Len(a) THEN Ok(SubSeq(a, pos + 1, pos + n))
    ELSE Err("UnexpectedEof")

\* str::split(sep), collected: the pieces between the separators.
RECURSIVE split(_, _)
split(str, sep) ==
    IF \A i \in 1..Len(str) : str[i] # sep THEN <<str>>
    ELSE LET k == CHOOSE i \in 1..Len(str) :
                    str[i] = sep /\ \A j \in 1..(i - 1) : str[j] # sep
         IN  <<SubSeq(str, 1, k - 1)>> \o split(SubSeq(str, k + 1, Len(str)), sep)

\* Faulty variant: only the major components are compared.
version_mismatch_major_only(header_parts, current_parts) ==
    header_parts[1] # current_parts[1]

\* header_major != current_major || header_minor != current_minor.
version_mismatch(header_parts, current_parts) ==
    \/ header_parts[1] # current_parts[1]
    \/ header_parts[2] # current_parts[2]

\* verify_header, run by a build whose VERSION is `version`, on the bytes a.
verify_header(a, version) ==
    LET expected_len == Len(magic_version(version))
        header == read_exact(a, 0, expected_len)
    IN  IF ~header.ok THEN Err("UnexpectedEof")
        ELSE IF ~IsPrefix(PREFIX, header.val) THEN Err("InvalidData: prefix mismatch")
        ELSE LET version_str == from_utf8(SubSeq(header.val, Len(PREFIX) + 1,
                                                 Len(header.val)))
             IN  IF ~version_str.ok THEN Err("InvalidData: utf8")
                 ELSE LET header_parts == split(version_str.val, DOT)
                          current_parts == split(version, DOT)
                      IN  IF Len(header_parts) < 2 THEN Err("Other: version format")
                          ELSE IF Len(current_parts) < 2 THEN Err("Other: current version")
                          ELSE IF version_mismatch(header_parts, current_parts)
                            THEN Err("InvalidData: incompatible version")
                          ELSE Ok(version_str.val)

\* --------------------------------------------- ArchiveReader::new (reader.rs)

\* Faulty variant: the loop skips by the original-size field of the record.
RECURSIVE skip_chunks_original_size(_, _, _)
skip_chunks_original_size(a, pos, k) ==
    IF k = 0 THEN Ok(pos)
    ELSE LET sizes == read_exact(a, pos, HASH_LEN + U64_LEN + U64_LEN)
         IN  IF ~sizes.ok THEN Err("ReaderError")
             ELSE LET original_size ==
                          from_le_bytes(SubSeq(sizes.val, HASH_LEN + 1,
                                               HASH_LEN + U64_LEN))
                  IN  skip_chunks_original_size(
                          a, pos + HASH_LEN + U64_LEN + U64_LEN + original_size, k - 1)

\* u64::from_le_bytes(b) as i64: the same 64 bits read as two's complement.
\* A value with the top bit set is negative, -(~value + 1); magnitudes of
\* 2^30 and more are read as Huge.
as_i64(b) ==
    IF b[Len(b)] < 128 THEN from_le_bytes(b)
    ELSE 0 - (IF from_le_bytes([i \in 1..Len(b) |-> 255 - b[i]]) >= Huge THEN Huge
              ELSE from_le_bytes([i \in 1..Len(b) |-> 255 - b[i]]) + 1)

\* One turn of the "skip all chunks" loop at pos: read the digest and the two
\* sizes, then seek(SeekFrom::Current(compressed_size as i64)); a seek to
\* before the start of the file fails.
skip_record(a, pos) ==
    LET sizes == read_exact(a, pos, HASH_LEN + U64_LEN + U64_LEN)
    IN  IF ~sizes.ok THEN Err("ReaderError")
        ELSE LET compressed_size ==
                     SubSeq(sizes.val, HASH_LEN + U64_LEN + 1,
                            HASH_LEN + U64_LEN + U64_LEN)
                 target == pos + HASH_LEN + U64_LEN + U64_LEN + as_i64(compressed_size)
             IN  IF target < 0 THEN Err("ReaderError") ELSE Ok(target)

\* The "skip all chunks" loop: k records left, reading at pos.
RECURSIVE skip_chunks(_, _, _)
skip_chunks(a, pos, k) ==
    IF k = 0 THEN Ok(pos)
    ELSE LET next == skip_record(a, pos)
         IN  IF ~next.ok THEN next ELSE skip_chunks(a, next.val, k - 1)

\* ArchiveReader::new on the archive bytes a.
ArchiveReaderNew(a, version) ==
    LET hdr == verify_header(a, version)
        p1  == Len(magic_version(version))
        ts  == read_exact(a, p1, U64_LEN)
        cnt == read_exact(a, p1 + U64_LEN, U64_LEN)
        chunk_table_offset == p1 + U64_LEN + U64_LEN
    IN  IF ~hdr.ok THEN hdr
        ELSE IF ~ts.ok THEN Err("ReaderError")
        ELSE IF ~cnt.ok THEN Err("ReaderError")
        ELSE LET unique_chunk_count == from_le_bytes(cnt.val)
                 skipped == skip_chunks(a, chunk_table_offset, unique_chunk_count)
             IN  IF ~skipped.ok THEN skipped
                 ELSE LET fc == read_exact(a, skipped.val, U32_LEN)
                      IN  IF ~fc.ok THEN Err("ReaderError")
                          ELSE Ok([archive_size |-> Len(a),
                                   squish_creation_time |-> from_le_bytes(ts.val),
                                   number_of_chunks |-> unique_chunk_count,
                                   squish_version |-> hdr.val,
                                   file_count |-> from_le_bytes(fc.val),
                                   chunk_table_offset |-> chunk_table_offset,
                                   file_table_offset |-> skipped.val + U32_LEN])

NoReader == [archive_size |-> 0, squish_creation_time |-> 0,
             number_of_chunks |-> 0, squish_version |-> <<>>, file_count |-> 0,
             chunk_table_offset |-> 0, file_table_offset |-> 0]

InitReadSink(sink) ==
    /\ unpack_bar = sink
    /\ unpack_pos = 0
    /\ rpos = 0
    /\ rcalls = <<>>
    /\ upool = 0
    /\ rpc = "none"
    /\ rd = NoReader
    /\ chunk_map = <<>>
    /\ entries = <<>>
    /\ epc = <<>>
    /\ outTree = <<>>
    /\ unpackResult = Err("none")
    /\ summary = Err("none")

\* The command line always hands a progress bar to unpack.
InitRead == InitReadSink(TRUE)

\* ArchiveReader::new on the finished archive.
ReaderOpen ==
    /\ opc = "done" /\ rpc = "none"
    /\ LET r == ArchiveReaderNew(stream, running_version)
       IN  IF r.ok THEN rpc' = "indexed" /\ rd' = r.val
                        /\ rpos' = r.val.file_table_offset
           ELSE rpc' = "error" /\ rd' = rd /\ rpos' = rpos
    /\ UNCHANGED <<packVars, upool, rcalls, running_version, summary, unpack_bar, unpack_pos,
                   chunk_map, entries, epc, outTree, unpackResult>>

\* get_summary: the loop over the file table, k entries left, reading at pos.
\* The digests of an entry are passed by a seek of chunk_count * 16 bytes,
\* which succeeds wherever it lands.
RECURSIVE summary_files(_, _, _)
summary_files(a, pos, k) ==
    IF k = 0 THEN Ok(<<>>)
    ELSE LET plen == read_exact(a, pos, U32_LEN)
         IN  IF ~plen.ok THEN Err("ReaderError")
         ELSE LET path_length == from_le_bytes(plen.val)
                  pb == read_exact(a, pos + U32_LEN, path_length)
              IN  IF ~pb.ok THEN Err("ReaderError")
              ELSE IF ~from_utf8(pb.val).ok THEN Err("IllegalUTF8")
              ELSE LET p3 == pos + U32_LEN + path_length
                       osz == read_exact(a, p3, U64_LEN)
                       cc == read_exact(a, p3 + U64_LEN, U32_LEN)
                   IN  IF ~osz.ok \/ ~cc.ok THEN Err("ReaderError")
                   ELSE LET chunk_count == from_le_bytes(cc.val)
                            more == summary_files(
                                        a, p3 + U64_LEN + U32_LEN + chunk_count * HASH_LEN,
                                        k - 1)
                        IN  IF ~more.ok THEN more
                            ELSE Ok(<<[path |-> pb.val,
                                       original_size |-> from_le_bytes(osz.val)]>>
                                    \o more.val)

\* Faulty variant: the total is the size of the last entry read.
total_orig_size_last(fs) ==
    IF fs = <<>> THEN 0 ELSE fs[Len(fs)].original_size

\* total_orig_size += orig_size over the entries.
RECURSIVE total_orig_size(_)
total_orig_size(fs) ==
    IF fs = <<>> THEN 0 ELSE fs[1].original_size + total_orig_size(Tail(fs))

\* Faulty variant: the quotient is taken whatever the total is.
reduction_percentage_unguarded(archive_size, total) ==
    [num |-> (total - archive_size) * 100, den |-> total]

\* (1.0 - archive_size / total_orig_size) * 100.0 when the total is positive,
\* else 0.0; the value is kept as the fraction num / den.
reduction_percentage(archive_size, total) ==
    IF total > 0 THEN [num |-> (total - archive_size) * 100, den |-> total]
    ELSE [num |-> 0, den |-> 1]

\* The position get_summary's loop leaves the reader at: after the k-th
\* entry, after the path that is not UTF-8, or at the end of the file, which
\* a failed read_exact has consumed.
RECURSIVE summary_end(_, _, _)
summary_end(a, pos, k) ==
    IF k = 0 THEN pos
    ELSE LET one == summary_files(a, pos, 1)
             path_length == from_le_bytes(SubSeq(a, pos + 1, pos + U32_LEN))
             p3 == pos + U32_LEN + path_length
         IN  IF ~one.ok
               THEN IF one.err = "IllegalUTF8" THEN p3 ELSE Max(pos, Len(a))
             ELSE summary_end(a, p3 + U64_LEN + U32_LEN
                                   + from_le_bytes(SubSeq(a, p3 + U64_LEN + 1,
                                                          p3 + U64_LEN + U32_LEN))
                                     * HASH_LEN,
                              k - 1)

\* get_summary after its seek: the loop reads from pos.
get_summary_from(a, r, pos) ==
    LET fs == summary_files(a, pos, r.file_count)
    IN  IF ~fs.ok THEN fs
        ELSE Ok([unique_chunks |-> r.number_of_chunks,
                 total_original_size |-> total_orig_size(fs.val),
                 archive_size |-> r.archive_size,
                 reduction_percentage |->
                     reduction_percentage(r.archive_size, total_orig_size(fs.val)),
                 squish_creation_date |-> r.squish_creation_time,
                 squish_version |-> r.squish_version,
                 files |-> fs.val])

\* ArchiveReader::get_summary on the archive bytes a with the reader fields r:
\* seek(SeekFrom::Start(file_table_offset)), then the loop.
get_summary(a, r) == get_summary_from(a, r, r.file_table_offset)

\* The calls made on one ArchiveReader.
MaxReaderCalls == 3

\* One call of get_summary on the opened reader.
GetSummary ==
    /\ rpc \in {"indexed", "done"} /\ Len(rcalls) < MaxReaderCalls
    /\ summary' = get_summary(stream, rd)
    /\ rpos' = summary_end(stream, rd.file_table_offset, rd.file_count)
    /\ rcalls' = Append(rcalls, "get_summary")
    /\ UNCHANGED <<packVars, upool, running_version, rpc, rd, chunk_map, entries, epc,
                   outTree, unpackResult, unpack_bar, unpack_pos>>

\* HashMap::insert.
MapInsert(map, k, v) ==
    [d \in DOMAIN map \cup {k} |-> IF d = k THEN v ELSE map[d]]

\* read_chunks: k records left, reading at pos, map built so far.
RECURSIVE read_chunks_loop(_, _, _, _)
read_chunks_loop(a, pos, k, map) ==
    IF k = 0 THEN Ok(map)
    ELSE LET head == read_exact(a, pos, HASH_LEN + U64_LEN + U64_LEN)
         IN  IF ~head.ok THEN Err("ReaderError")
             ELSE LET hash == SubSeq(head.val, 1, HASH_LEN)
                      compressed_size ==
                          from_le_bytes(SubSeq(head.val, HASH_LEN + U64_LEN + 1,
                                               HASH_LEN + U64_LEN + U64_LEN))
                      p2 == pos + HASH_LEN + U64_LEN + U64_LEN
                      compressed_data == read_exact(a, p2, compressed_size)
                  IN  IF ~compressed_data.ok THEN Err("ReaderError")
                      ELSE LET decompressed ==
                                   decompress(compressed_data.val,
                                              EXPECTED_MAX_CHUNK_SIZE)
                           IN  IF ~decompressed.ok THEN Err("ReaderError")
                               ELSE read_chunks_loop(a, p2 + compressed_size, k - 1,
                                        MapInsert(map, hash, decompressed.val))

\* read_chunks: the number of records read and decompressed, each followed by
\* progress_bar.inc(1), before the loop ends or fails.
RECURSIVE chunks_read(_, _, _)
chunks_read(a, pos, k) ==
    IF k = 0 \/ ~read_chunks_loop(a, pos, 1, <<>>).ok THEN 0
    ELSE LET compressed_size ==
                 from_le_bytes(SubSeq(a, pos + HASH_LEN + U64_LEN + 1,
                                      pos + HASH_LEN + U64_LEN + U64_LEN))
         IN  1 + chunks_read(a, pos + HASH_LEN + U64_LEN + U64_LEN + compressed_size,
                             k - 1)

\* read_chunks after its seek: the loop reads from pos.
read_chunks_from(a, r, pos) == read_chunks_loop(a, pos, r.number_of_chunks, <<>>)

\* read_chunks: seek(SeekFrom::Start(chunk_table_offset)), then the loop.
read_chunks(a, r) == read_chunks_from(a, r, r.chunk_table_offset)

\* The position read_chunks' loop leaves the reader at: after the k-th
\* record, after the payload that does not decompress, or at the end of the
\* file, which a failed read_exact has consumed.
RECURSIVE chunks_end(_, _, _)
chunks_end(a, pos, k) ==
    IF k = 0 THEN pos
    ELSE LET p2 == pos + HASH_LEN + U64_LEN + U64_LEN
             compressed_size == from_le_bytes(SubSeq(a, p2 - U64_LEN + 1, p2))
         IN  IF read_chunks_loop(a, pos, 1, <<>>).ok
               THEN chunks_end(a, p2 + compressed_size, k - 1)
             ELSE IF read_exact(a, pos, HASH_LEN + U64_LEN + U64_LEN).ok
                     /\ read_exact(a, p2, compressed_size).ok
               THEN p2 + compressed_size
             ELSE Max(pos, Len(a))

\* Faulty variant: a chunk that cannot be read or decompressed is left out and
\* unpack goes on to rebuild the files.
UnpackReadChunks_keep_going ==
    /\ rpc = "indexed"
    /\ LET m == read_chunks(stream, rd)
       IN  /\ rpc' = "chunks"
           /\ chunk_map' = IF m.ok THEN m.val ELSE <<>>
           /\ UNCHANGED unpackResult
    /\ unpack_pos' = IF unpack_bar
                        THEN chunks_read(stream, rd.chunk_table_offset,
                                         rd.number_of_chunks)
                        ELSE unpack_pos
    /\ rpos' = chunks_end(stream, rd.chunk_table_offset, rd.number_of_chunks)
    /\ rcalls' = Append(rcalls, "unpack")
    /\ UNCHANGED <<packVars, upool, running_version, summary, unpack_bar, rd, entries, epc, outTree>>

\* Faulty variant: read_chunks reads on from where the reader stands.
UnpackReadChunks_no_seek ==
    /\ rpc = "indexed"
    /\ LET m == read_chunks_from(stream, rd, rpos)
       IN  IF m.ok THEN rpc' = "chunks" /\ chunk_map' = m.val
                        /\ UNCHANGED unpackResult
           ELSE rpc' = "done" /\ unpackResult' = Err(m.err)
                /\ UNCHANGED chunk_map
    /\ unpack_pos' = IF unpack_bar
                        THEN chunks_read(stream, rd.chunk_table_offset,
                                         rd.number_of_chunks)
                        ELSE unpack_pos
    /\ rpos' = chunks_end(stream, rd.chunk_table_offset, rd.number_of_chunks)
    /\ rcalls' = Append(rcalls, "unpack")
    /\ UNCHANGED <<packVars, upool, running_version, summary, unpack_bar, rd, entries, epc, outTree>>

\* unpack: read_chunks; on an error unpack returns it.
UnpackReadChunks ==
    /\ rpc = "indexed"
    /\ LET m == read_chunks(stream, rd)
       IN  IF m.ok THEN rpc' = "chunks" /\ chunk_map' = m.val
                        /\ UNCHANGED unpackResult
           ELSE rpc' = "done" /\ unpackResult' = Err(m.err)
                /\ UNCHANGED chunk_map
    /\ unpack_pos' = IF unpack_bar
                        THEN chunks_read(stream, rd.chunk_table_offset,
                                         rd.number_of_chunks)
                        ELSE unpack_pos
    /\ rpos' = chunks_end(stream, rd.chunk_table_offset, rd.number_of_chunks)
    /\ rcalls' = Append(rcalls, "unpack")
    /\ UNCHANGED <<packVars, upool, running_version, summary, unpack_bar, rd, entries, epc, outTree>>

\* Reads n digests at pos.
RECURSIVE read_hashes(_, _, _)
read_hashes(a, pos, n) ==
    IF n = 0 THEN Ok(<<>>)
    ELSE LET h == read_exact(a, pos, HASH_LEN)
         IN  IF ~h.ok THEN Err("ReaderError")
             ELSE LET more == read_hashes(a, pos + HASH_LEN, n - 1)
                  IN  IF ~more.ok THEN more ELSE Ok(<<h.val>> \o more.val)

\* rebuild_files: the loop that reads the file table, k entries left.
RECURSIVE read_entries(_, _, _)
read_entries(a, pos, k) ==
    IF k = 0 THEN Ok(<<>>)
    ELSE LET plen == read_exact(a, pos, U32_LEN)
         IN  IF ~plen.ok THEN Err("ReaderError")
         ELSE LET path_length == from_le_bytes(plen.val)
                  pb == read_exact(a, pos + U32_LEN, path_length)
              IN  IF ~pb.ok THEN Err("ReaderError")
              ELSE IF ~from_utf8(pb.val).ok THEN Err("IllegalUTF8")
              ELSE LET p3 == pos + U32_LEN + path_length
                       tail == read_exact(a, p3, U64_LEN + U32_LEN)
                   IN  IF ~tail.ok THEN Err("ReaderError")
                   ELSE LET chunk_count ==
                                from_le_bytes(SubSeq(tail.val, U64_LEN + 1,
                                                     U64_LEN + U32_LEN))
                            p4 == p3 + U64_LEN + U32_LEN
                            hs == read_hashes(a, p4, chunk_count)
                        IN  IF ~hs.ok THEN hs
                            ELSE LET more == read_entries(a, p4 + HASH_LEN * chunk_count,
                                                          k - 1)
                                 IN  IF ~more.ok THEN more
                                     ELSE Ok(<<[relative_path |-> pb.val,
                                                chunk_hashes |-> hs.val]>>
                                             \o more.val)

\* The position rebuild_files' loop leaves the reader at.
RECURSIVE entries_end(_, _, _)
entries_end(a, pos, k) ==
    IF k = 0 THEN pos
    ELSE LET one == read_entries(a, pos, 1)
             path_length == from_le_bytes(SubSeq(a, pos + 1, pos + U32_LEN))
             p3 == pos + U32_LEN + path_length
         IN  IF ~one.ok
               THEN IF one.err = "IllegalUTF8" THEN p3 ELSE Max(pos, Len(a))
             ELSE entries_end(a, p3 + U64_LEN + U32_LEN
                                   + Len(one.val[1].chunk_hashes) * HASH_LEN,
                              k - 1)

\* rebuild_files: read the file table, then start one task per entry.
UnpackReadTable ==
    /\ rpc = "chunks"
    /\ rpos' = entries_end(stream, rd.file_table_offset, rd.file_count)
    /\ upool' = global_registry(upool, cpus)
    /\ unpack_pos' = IF unpack_bar THEN 0 ELSE unpack_pos
    /\ LET es == read_entries(stream, rd.file_table_offset, rd.file_count)
       IN  IF es.ok
             THEN /\ rpc' = "rebuild"
                  /\ entries' = es.val
                  /\ epc' = [e \in 1..Len(es.val) |-> "todo"]
                  /\ UNCHANGED unpackResult
             ELSE /\ rpc' = "done"
                  /\ unpackResult' = Err(es.err)
                  /\ UNCHANGED <<entries, epc>>
    /\ UNCHANGED <<packVars, rcalls, running_version, summary, unpack_bar, rd, chunk_map, outTree>>

\* The task of entry e: create_dir_all(parent), File::create(full_path).
RebuildCreate(e) ==
    /\ rpc = "rebuild" /\ e \in DOMAIN epc /\ epc[e] = "todo"
    /\ running_rebuild < upool
    /\ outTree' = MapInsert(outTree, entries[e].relative_path, <<>>)
    /\ epc' = [epc EXCEPT ![e] = "write"]
    /\ UNCHANGED <<packVars, rpos, upool, rcalls, running_version, summary, unpack_bar, unpack_pos,
                   rpc, rd, chunk_map, entries, unpackResult>>

\* The bytes written before the first digest that is missing from the map.
RECURSIVE rebuilt_bytes(_, _)
rebuilt_bytes(hashes, map) ==
    IF hashes = <<>> \/ hashes[1] \notin DOMAIN map THEN <<>>
    ELSE map[hashes[1]] \o rebuilt_bytes(Tail(hashes), map)

\* Faulty variant: a digest missing from the map is passed over in silence.
RebuildWrite_ignore_missing(e) ==
    /\ rpc = "rebuild" /\ e \in DOMAIN epc /\ epc[e] = "write"
    /\ outTree' = MapInsert(outTree, entries[e].relative_path,
                            rebuilt_bytes(entries[e].chunk_hashes, chunk_map))
    /\ epc' = [epc EXCEPT ![e] = "ok"]
    /\ unpack_pos' = inc(unpack_bar, unpack_pos)
    /\ UNCHANGED <<packVars, rpos, upool, rcalls, running_version, summary, unpack_bar, rpc, rd, chunk_map, entries,
                   unpackResult>>

\* The task of entry e: write each chunk in order; a digest missing from the
\* map ends the task with MissingChunk (the BufWriter is flushed on drop).
RebuildWrite(e) ==
    /\ rpc = "rebuild" /\ e \in DOMAIN epc /\ epc[e] = "write"
    /\ outTree' = MapInsert(outTree, entries[e].relative_path,
                            rebuilt_bytes(entries[e].chunk_hashes, chunk_map))
    /\ epc' = [epc EXCEPT ![e] =
                 IF \A k \in 1..Len(entries[e].chunk_hashes) :
                        entries[e].chunk_hashes[k] \in DOMAIN chunk_map
                   THEN "ok" ELSE "missing"]
    /\ unpack_pos' = IF \A k \in 1..Len(entries[e].chunk_hashes) :
                            entries[e].chunk_hashes[k] \in DOMAIN chunk_map
                       THEN inc(unpack_bar, unpack_pos) ELSE unpack_pos
    /\ UNCHANGED <<packVars, rpos, upool, rcalls, running_version, summary, unpack_bar, rpc, rd, chunk_map, entries, unpackResult>>

\* try_for_each stops handing out entries once a task has failed: an entry
\* whose task has not started may never run.
RebuildSkip(e) ==
    /\ rpc = "rebuild" /\ e \in DOMAIN epc /\ epc[e] = "todo"
    /\ \E f \in DOMAIN epc : epc[f] = "missing"
    /\ epc' = [epc EXCEPT ![e] = "skipped"]
    /\ UNCHANGED <<packVars, rpos, upool, rcalls, running_version, summary, unpack_bar, unpack_pos,
                   rpc, rd, chunk_map, entries,
                   outTree, unpackResult>>

\* Box::new(AppError::MissingChunk(entry.relative_path)): the task's error.
Boxed(kind, path) == [boxed |-> [kind |-> kind, path |-> path]]

\* The `?` after try_for_each: Box<dyn Error + Send + Sync> into AppError.
\* The error keeps its kind and the path it names.
from_boxed(b) == ErrAt(b.boxed.kind, b.boxed.path)

\* try_for_each returns: Ok when no task failed, else one of the errors.
UnpackReturn ==
    /\ rpc = "rebuild"
    /\ \A e \in DOMAIN epc : epc[e] \in {"ok", "missing", "skipped"}
    /\ rpc' = "done"
    /\ IF \A e \in DOMAIN epc : epc[e] = "ok"
         THEN unpackResult' = Ok(<<>>)
         ELSE \E e \in DOMAIN epc :
                 /\ epc[e] = "missing"
                 /\ unpackResult' =
                        from_boxed(Boxed("MissingChunk", entries[e].relative_path))
    /\ UNCHANGED <<packVars, rpos, upool, rcalls, running_version, summary, unpack_bar, unpack_pos,
                   rd, chunk_map, entries, epc, outTree>>

\* ------------------------------------------------------------ specification

Init == InitPack /\ InitRead /\ running_version = VERSION

Next ==
    \/ \E i \in Files : WorkerStart(i)
    \/ \E i \in Files : WorkerEntry(i)
    \/ \E i \in Files : WorkerInsert(i)
    \/ \E i \in Files : WorkerSend(i)
    \/ \E i \in Files : WorkerFinish(i)
    \/ WtRecv
    \/ WtWrite
    \/ WtClose
    \/ PackStart
    \/ PackCollect
    \/ PackDropSender
    \/ PackJoin
    \/ PackPatch
    \/ PackMeta
    \/ PackSize
    \/ ReaderOpen
    \/ UnpackReadChunks
    \/ UnpackReadTable
    \/ \E e \in DOMAIN epc : RebuildCreate(e)
    \/ \E e \in DOMAIN epc : RebuildWrite(e)
    \/ UnpackReturn

\* One pack of a directory tree, then one unpack of the archive it wrote.
Spec == Init /\ [][Next]_vars

\* ------------------------ specification: packing files of any name

\* File names: ASCII, or the single byte FF, which is not UTF-8.
NamedPath(i, name) == IF i = 1 THEN <<name>> ELSE <<100, name>>

NamedFile(i, name, data) ==
    [path |-> InputRoot \o NamedPath(i, name), data |-> data]

\* Contents: two equal chunks, one chunk and a short tail, empty.
NamedContents == { <<1, 1, 1, 1>>, <<1, 1, 1>>, <<>> }

\* No file, one file in the root, or one in the root and one in a
\* sub-directory.
NamedFileLists ==
    {<<>>}
      \cup { <<NamedFile(1, n, c)>> : n \in {97, 255}, c \in NamedContents }
      \cup { <<NamedFile(1, n, c), NamedFile(2, m, d)>> :
               n \in {97, 255}, c \in NamedContents,
               m \in {98, 255}, d \in NamedContents }

InitNames ==
    /\ \E fs \in NamedFileLists : InitPackWith(fs)
    /\ InitRead
    /\ running_version = VERSION

\* One pack of a directory tree whose file names need not be UTF-8, then one
\* unpack of the archive it wrote.
SpecNames == InitNames /\ [][Next]_vars


\* ------------------------------------------------------- claims: helpers

RECURSIVE Sum(_)
Sum(ns) == IF ns = <<>> THEN 0 ELSE ns[1] + Sum(Tail(ns))

\* Number of windows, over all input files, whose digest is d.
Occurrences(d) ==
    Sum([i \in Files |->
           Cardinality({ k \in 1..Len(WindowsFrom(files[i].data, 0)) :
                           hash_chunk(WindowsFrom(files[i].data, 0)[k]) = d })])

AllWorkersDone == \A i \in Files : wpc[i] = "done"

\* Chunk records the writer thread has written completely (4 writes each).
ThreadWrites == { k \in DOMAIN wlog : wlog[k][1] = "writer_thread" }
RecordsWritten == Cardinality(ThreadWrites) \div 4

\* Where the chunk table starts: right after the chunk-count field.
ChunkTableStart == chunks_count_position + U64_LEN

\* The first k chunk records of the bytes a, from pos.
RECURSIVE chunk_records(_, _, _)
chunk_records(a, pos, k) ==
    IF k = 0 THEN Ok(<<>>)
    ELSE LET head == read_exact(a, pos, HASH_LEN + U64_LEN + U64_LEN)
         IN  IF ~head.ok THEN Err("eof")
             ELSE LET clen == from_le_bytes(SubSeq(head.val, HASH_LEN + U64_LEN + 1,
                                                   HASH_LEN + U64_LEN + U64_LEN))
                      p2 == pos + HASH_LEN + U64_LEN + U64_LEN
                      data == read_exact(a, p2, clen)
                  IN  IF ~data.ok THEN Err("eof")
                      ELSE LET more == chunk_records(a, p2 + clen, k - 1)
                           IN  IF ~more.ok THEN more
                               ELSE Ok(<<[hash |-> SubSeq(head.val, 1, HASH_LEN),
                                          orig |-> from_le_bytes(
                                              SubSeq(head.val, HASH_LEN + 1,
                                                     HASH_LEN + U64_LEN)),
                                          clen |-> clen,
                                          data |-> data.val,
                                          at |-> pos]>> \o more.val)

\* The chunk records of the archive as written so far.
TableRecords == chunk_records(stream, ChunkTableStart, RecordsWritten)

\* The digests of the chunk records, in table order.
TableDigests == [k \in 1..Len(TableRecords.val) |-> TableRecords.val[k].hash]

\* The File Table as a reader indexes and reads it.
FileTable ==
    LET r == ArchiveReaderNew(stream, VERSION)
    IN  IF ~r.ok THEN Err("index")
        ELSE read_entries(stream, r.val.file_table_offset, r.val.file_count)

\* The chunk-count field of the archive.
CountField ==
    from_le_bytes(SubSeq(stream, chunks_count_position + 1,
                         chunks_count_position + U64_LEN))

\* ------------------------------------------------------------------ claims

RelBytes(i) == path_bytes(strip_prefix(files[i].path, InputRoot).val)

C3_UniqueDigests ==
    opc = "done" =>
        LET digests == TableDigests
        IN  /\ TableRecords.ok
            /\ \A j, k \in 1..Len(digests) : j # k => digests[j] # digests[k]
            /\ { digests[k] : k \in 1..Len(digests) } = Digests(files)

\* Two files with the same single chunk were packed into one record.
C3_Witness ==
    /\ opc = "done"
    /\ Len(files) = 2
    /\ files[1].data = <<1, 1>> /\ files[2].data = <<1, 1>>
    /\ Len(TableDigests) = 1

\* C4: referential integrity.  After a successful pack every digest listed
\* by a File Table entry is the digest of a chunk record of the archive.
C4_ReferentialIntegrity ==
    opc = "done" =>
        LET digests == TableDigests
            table == FileTable
        IN  /\ TableRecords.ok
            /\ table.ok
            /\ Len(table.val) = Len(files)
            /\ \A e \in 1..Len(table.val) :
                  \A k \in 1..Len(table.val[e].chunk_hashes) :
                     \E r \in 1..Len(digests) :
                        digests[r] = table.val[e].chunk_hashes[k]

\* A finished archive whose File Table lists four digests over two files.
C4_Witness ==
    /\ opc = "done"
    /\ FileTable.ok
    /\ Len(FileTable.val) = 2
    /\ Len(FileTable.val[1].chunk_hashes) = 2
    /\ Len(FileTable.val[2].chunk_hashes) = 2
    /\ FileTable.val[2].chunk_hashes[2] # FileTable.val[2].chunk_hashes[1]

\* C5: after a successful pack the chunk-count field equals ChunkStore.len()
\* and the number of chunk records the writer thread wrote.
C5_ChunkCount ==
    opc = "done" =>
        /\ CountField = store_len
        /\ CountField = RecordsWritten
        /\ TableRecords.ok

\* A finished archive with three chunk records.
C5_Witness ==
    /\ opc = "done"
    /\ CountField = 3
    /\ RecordsWritten = 3

\* Number of writes of the writer thread among the first k writes.
ThreadWritesUpTo(k) == Cardinality({ j \in ThreadWrites : j <= k })

\* The widths of the three fixed fields of a chunk record, by position.
FieldLen(n) == IF n = 1 THEN HASH_LEN ELSE U64_LEN

\* C6: chunk record framing is never torn.  Only ArchiveWriter::new, the
\* writer thread and pack (never a worker) write to the output stream; a
\* write of the writer thread that is not the last field of its record is
\* followed immediately by the thread's next write, at the very next byte;
\* the fields have the widths 16, 8, 8 and compressed length; and the records
\* written so far are in the stream intact: each parses, and its data
\* decompresses to bytes whose digest is the record's digest.
C6_FramingNeverTorn ==
    /\ \A k \in DOMAIN wlog : wlog[k][1] \in {"new", "writer_thread", "pack"}
    /\ \A k \in ThreadWrites :
          /\ ThreadWritesUpTo(k) % 4 # 0 =>
                wlog[k][3] = FieldLen(ThreadWritesUpTo(k) % 4)
          /\ (ThreadWritesUpTo(k) % 4 # 0 /\ k < Len(wlog)) =>
                /\ wlog[k + 1][1] = "writer_thread"
                /\ wlog[k + 1][2] = wlog[k][2] + wlog[k][3]
    /\ LET records == TableRecords
       IN  /\ records.ok
           /\ \A r \in 1..Len(records.val) :
                 LET rec == records.val[r]
                     k == CHOOSE j \in ThreadWrites : ThreadWritesUpTo(j) = 4 * r
                     bytes == decompress(rec.data, CHUNK_SIZE)
                 IN  /\ wlog[k][3] = rec.clen
                     /\ wlog[k][2] = rec.at + HASH_LEN + U64_LEN + U64_LEN
                     /\ bytes.ok
                     /\ hash_chunk(bytes.val) = rec.hash

\* The writer thread is in the middle of a record while another message
\* waits in the channel and a worker is compressing a third chunk.
C6_Witness ==
    /\ wtpc = "data"
    /\ Len(chan) >= 1
    /\ \E i \in Files : wpc[i] = "vacant"

\* Where the writer thread's last write ended (the chunk table's end).
ThreadEnd ==
    IF ThreadWrites = {} THEN ChunkTableStart
    ELSE LET k == CHOOSE j \in ThreadWrites : \A m \in ThreadWrites : m <= j
         IN  wlog[k][2] + wlog[k][3]

PackWrites == { k \in DOMAIN wlog : wlog[k][1] = "pack" }

\* C7: the File Table comes strictly after the Chunk Table.  pack writes to
\* (or seeks) the output stream only once the writer thread has been joined
\* and has returned: until then the stream is written by new (before any
\* chunk record) and by the thread only, and its position only moves by
\* appending; no write of the thread follows a write of pack; and in the
\* finished archive the file-count field starts where the last chunk record
\* ends (the File Table is U32_LEN further), every File Table byte lying
\* behind the last chunk record.
C7_FileTableAfterChunkTable ==
    /\ PackWrites # {} => joined /\ wtpc = "done"
    /\ ~joined => PackWrites = {} /\ wpos = Len(stream)
    /\ \A k \in ThreadWrites :
          /\ \A p \in PackWrites : k < p
          /\ \A n \in DOMAIN wlog : wlog[n][1] = "new" => n < k
    /\ opc = "done" =>
          LET r == ArchiveReaderNew(stream, VERSION)
              end == ThreadEnd
          IN  /\ r.ok
              /\ r.val.file_table_offset = end + U32_LEN
              /\ \A p \in PackWrites :
                    \/ wlog[p][2] >= end
                    \/ wlog[p][2] = chunks_count_position /\ wlog[p][3] = U64_LEN

\* A finished archive with three chunk records and two File Table entries.
C7_Witness ==
    /\ opc = "done"
    /\ joined
    /\ RecordsWritten = 3
    /\ Len(files) = 2
    /\ Cardinality(PackWrites) > 2

\* ------------------------------------------------ archives found on disk

\* The bytes writer_thread writes for the message of one chunk.
ChunkRecord(chunk) ==
    LET msg == ChunkMessage(chunk)
    IN  msg.hash \o u64(msg.original_size) \o u64(Len(msg.compressed_data))
          \o msg.compressed_data

\* An archive file in the layout new, writer_thread and pack produce: header
\* of the writing build's version, timestamp, chunk count, one record per
\* chunk, file table.
ArchiveBytes(version, now, count, chunks, table) ==
    magic_version(version) \o u64(now) \o u64(count)
      \o Concat([k \in 1..Len(chunks) |-> ChunkRecord(chunks[k])])
      \o Concat(MetaWrites(table))

\* The state of a finished pack that wrote the file table of meta and whose
\* output file holds the bytes a.
PackDoneWithTable(a, meta) ==
    /\ InitMainWalked
    /\ finished = <<>>
    /\ reordered = FALSE
    /\ pack_calls = 1
    /\ files = <<>>
    /\ opc = "done"
    /\ packResult = Ok(Len(a))
    /\ files_metadata = meta
    /\ wpc = <<>> /\ woff = <<>> /\ whashes = <<>> /\ wres = <<>>
    /\ store = {}
    /\ shardLock = [sh \in 0..(NumShards - 1) |-> 0]
    /\ chan = <<>>
    /\ senderOpen = FALSE
    /\ wtpc = "done"
    /\ wtmsg = NoMsg
    /\ wtResult = Ok(<<>>)
    /\ joined = TRUE
    /\ stream = a /\ wpos = Len(a) /\ wlog = <<>>
    /\ wbuf = 0 /\ disk = Len(a)
    /\ progress_bar = TRUE /\ pb_pos = Len(meta)
    /\ sent = <<>> /\ received = <<>>
    /\ insertSome = <<>> /\ insertNone = <<>>

\* The state of a finished pack whose output file holds the bytes a.
PackDoneWith(a) == PackDoneWithTable(a, <<>>)

\* ------------------------------------- specification: opening any archive

\* A semver string major.minor.patch.
Ver(major, minor, patch) == major \o <<DOT>> \o minor \o <<DOT>> \o patch

\* Versions of the writing and of the reading build: components of one and of
\* two digits ("1", "2", "3", "10").
HeaderVersions ==
    { Ver(ma, mi, pa) : ma \in {<<49>>, <<49, 48>>},
                        mi \in {<<49>>, <<50>>, <<49, 48>>},
                        pa \in {<<51>>, <<49, 48>>} }

\* Creation times: an ordinary one, one whose first byte is '.', and one whose
\* first byte is not UTF-8.
HeaderStamps == {1000000000, DOT, 255}

\* What happened to the file since it was written.
Corruptions == {"none", "byte1", "byte6", "cut3"}

\* An archive of one chunk and one file written by a build of version wver,
\* then damaged as c says: a byte of the magic prefix replaced, or the file
\* cut short inside the prefix.
HeaderArchive(wver, now, c) ==
    LET a == ArchiveBytes(wver, now, 1, << <<1, 1>> >>,
                          << [path |-> <<97>>, size |-> 2,
                              hashes |-> <<hash_chunk(<<1, 1>>)>>] >>)
    IN  CASE c = "none"  -> a
          [] c = "byte1" -> [a EXCEPT ![1] = 120]
          [] c = "byte6" -> [a EXCEPT ![6] = 120]
          [] c = "cut3"  -> SubSeq(a, 1, 3)

InitHeader ==
    /\ \E wver \in HeaderVersions, now \in HeaderStamps, c \in Corruptions :
          PackDoneWith(HeaderArchive(wver, now, c))
    /\ InitRead
    /\ running_version \in HeaderVersions

NextHeader == ReaderOpen

\* A build of any version opens an archive written by a build of any version.
SpecHeader == InitHeader /\ [][NextHeader]_vars

Major(version) == split(version, DOT)[1]
Minor(version) == split(version, DOT)[2]

\* C8: header rejection.  Once ArchiveReader::new has run on an archive that
\* does not start with the magic prefix, or that was written by a build whose
\* major or minor version differs from the running build's, it has returned
\* an error and produced no reader; the error is verify_header's own, so the
\* timestamp, the chunk table and the file table were never parsed.
C8_HeaderRejection ==
    rpc # "none" =>
        \A wver \in HeaderVersions, now \in HeaderStamps, c \in Corruptions :
            ( /\ stream = HeaderArchive(wver, now, c)
              /\ \/ ~IsPrefix(PREFIX, stream)
                 \/ Major(wver) # Major(running_version)
                 \/ Minor(wver) # Minor(running_version) )
            => /\ rpc = "error"
               /\ rd = NoReader
               /\ ~verify_header(stream, running_version).ok
               /\ ArchiveReaderNew(stream, running_version)
                    = verify_header(stream, running_version)

\* An intact archive of version 1.1.3 whose timestamp begins with '.', opened
\* and rejected by a build of version 1.10.3, which reads one byte more as
\* the version.
C8_Witness ==
    /\ rpc = "error"
    /\ stream = HeaderArchive(Ver(<<49>>, <<49>>, <<51>>), DOT, "none")
    /\ running_version = Ver(<<49>>, <<49, 48>>, <<51>>)

\* C9: the patch component is ignored.  Once ArchiveReader::new has run on an
\* intact archive written by a build with the running build's major and
\* minor version and any patch version, of any number of digits, it has
\* produced a reader whose creation time and chunk count are the ones written
\* right after the archive's own version string.
C9_PatchIgnored ==
    rpc # "none" =>
        \A wver \in HeaderVersions, now \in HeaderStamps :
            ( /\ stream = HeaderArchive(wver, now, "none")
              /\ Major(wver) = Major(running_version)
              /\ Minor(wver) = Minor(running_version) )
            => /\ rpc = "indexed"
               /\ rd.squish_creation_time = now
               /\ rd.number_of_chunks = 1

\* --------------------------- specification: unpacking any archive on disk

\* The chunks a forged archive may hold, and the digests its file table may
\* name.
ForgedChunks == {<<1, 1>>, <<1, 2>>, <<1>>}

\* Chunk tables: up to two different chunks.
ForgedTables ==
    {<<>>} \cup { <<c>> : c \in ForgedChunks }
           \cup { t \in ForgedChunks \X ForgedChunks : t[1] # t[2] }

\* The digest lists of a file table entry: one or two digests.
ForgedHashLists ==
    { <<hash_chunk(c)>> : c \in ForgedChunks }
      \cup { <<hash_chunk(c), hash_chunk(d)>> : c \in ForgedChunks, d \in ForgedChunks }

ForgedEntry(i, hs) ==
    [path |-> path_bytes(RelPath(i)), size |-> CHUNK_SIZE * Len(hs), hashes |-> hs]

\* File tables: one or two entries.
ForgedFileTables ==
    { <<ForgedEntry(1, hs)>> : hs \in ForgedHashLists }
      \cup { <<ForgedEntry(1, hs), ForgedEntry(2, gs)>> :
               hs \in ForgedHashLists, gs \in ForgedHashLists }

InitUnpack ==
    /\ \E now \in TimeStamps, chunks \in ForgedTables, table \in ForgedFileTables :
          PackDoneWith(ArchiveBytes(VERSION, now, Len(chunks), chunks, table))
    /\ InitRead
    /\ running_version = VERSION

NextUnpack ==
    \/ ReaderOpen
    \/ UnpackReadChunks
    \/ UnpackReadTable
    \/ \E e \in DOMAIN epc : RebuildCreate(e)
    \/ \E e \in DOMAIN epc : RebuildWrite(e)
    \/ \E e \in DOMAIN epc : RebuildSkip(e)
    \/ UnpackReturn

\* One unpack of a well-formed archive whose file table may name digests
\* that its chunk table does not hold.
SpecUnpack == InitUnpack /\ [][NextUnpack]_vars

\* The file table entries that name a digest absent from the chunk map.
Offending ==
    { e \in DOMAIN entries :
        \E k \in 1..Len(entries[e].chunk_hashes) :
            entries[e].chunk_hashes[k] \notin DOMAIN chunk_map }

FullBytes(e) == rebuilt_bytes(entries[e].chunk_hashes, chunk_map)

\* C11: when unpack has returned on an archive in which some file table
\* entry names a digest absent from the chunk map, unpack has reported
\* failure and every other entry, whose digests are all present, has been
\* written in full to the output tree.
C11_OthersUnaffected ==
    (rpc = "done" /\ Offending # {}) =>
        /\ ~unpackResult.ok
        /\ \A e \in DOMAIN entries \ Offending :
              /\ entries[e].relative_path \in DOMAIN outTree
              /\ outTree[entries[e].relative_path] = FullBytes(e)

\* ------------------------------------------------- pack with failing steps
\*
\* SpecFault adds to Next the ways a step of pack can fail: a worker's
\* File::open, read or compress returns an error, a worker panics, a task not
\* yet started is dropped once another has failed, the writer thread's
\* write_all or flush returns an error, and the ArchiveWriter is dropped by
\* its owner after pack failed.

\* A path that is not under the input root.
OutsideFile(d) == [path |-> <<120, 97>>, data |-> d]

FaultFile(i, d) == [path |-> InputRoot \o RelPath(i), data |-> d]

FaultContents == { <<1, 1, 1>>, <<1, 2>> }

FaultFileLists ==
    { <<FaultFile(1, c)>> : c \in FaultContents }
      \cup { <<FaultFile(1, t[1]), FaultFile(2, t[2])>> :
               t \in FaultContents \X FaultContents }
      \cup { <<FaultFile(1, c), OutsideFile(c)>> : c \in FaultContents }

InitFault ==
    /\ \E fs \in FaultFileLists : InitPackWith(fs)
    /\ InitRead
    /\ running_version = VERSION

\* File::open(file_path)? or file.metadata()? fails.
WorkerOpenError(i) ==
    /\ opc = "map" /\ wpc[i] = "start"
    /\ strip_prefix(files[i].path, InputRoot).ok
    /\ wpc' = [wpc EXCEPT ![i] = "failed"]
    /\ wres' = [wres EXCEPT ![i] = Err("Io")]
    /\ UNCHANGED <<files, opc, packResult, files_metadata, woff, whashes, store,
                   shardLock, chan, senderOpen, wtpc, wtmsg, wtResult, joined,
                   stream, wpos, wlog, wbuf, disk, insertSome, insertNone, sent, received, progress_bar, pb_pos,
                   poolVars, finished, reordered, pack_calls, readVars>>

\* reader.read(&mut chunk_buf) fails.
WorkerReadError(i) ==
    /\ opc = "map" /\ wpc[i] = "read"
    /\ wpc' = [wpc EXCEPT ![i] = "failed"]
    /\ wres' = [wres EXCEPT ![i] = Err("ReaderError")]
    /\ UNCHANGED <<files, opc, packResult, files_metadata, woff, whashes, store,
                   shardLock, chan, senderOpen, wtpc, wtmsg, wtResult, joined,
                   stream, wpos, wlog, wbuf, disk, insertSome, insertNone, sent, received, progress_bar, pb_pos,
                   poolVars, finished, reordered, pack_calls, readVars>>

\* Faulty variant: the digest is entered before compress is called and stays
\* in the set when compress fails.
WorkerCompressError_entered(i) ==
    /\ opc = "map" /\ wpc[i] = "vacant"
    /\ shardLock' = [shardLock EXCEPT
                       ![Shard(hash_chunk(Window(files[i].data, woff[i])))] = 0]
    /\ store' = store \cup {hash_chunk(Window(files[i].data, woff[i]))}
    /\ wpc' = [wpc EXCEPT ![i] = "failed"]
    /\ wres' = [wres EXCEPT ![i] = Err("Compression")]
    /\ UNCHANGED <<files, opc, packResult, files_metadata, woff, whashes,
                   chan, senderOpen, wtpc, wtmsg, wtResult, joined, stream,
                   wpos, wlog, wbuf, disk, insertSome, insertNone, sent, received, progress_bar, pb_pos,
                   poolVars, finished, reordered, pack_calls, readVars>>

\* compress fails inside insert: the vacant entry is dropped without
\* entry.insert(()), which releases the shard and leaves the set as it was.
WorkerCompressError(i) ==
    /\ opc = "map" /\ wpc[i] = "vacant"
    /\ shardLock' = [shardLock EXCEPT
                       ![Shard(hash_chunk(Window(files[i].data, woff[i])))] = 0]
    /\ wpc' = [wpc EXCEPT ![i] = "failed"]
    /\ wres' = [wres EXCEPT ![i] = Err("Compression")]
    /\ UNCHANGED <<files, opc, packResult, files_metadata, woff, whashes, store,
                   chan, senderOpen, wtpc, wtmsg, wtResult, joined, stream,
                   wpos, wlog, wbuf, disk, insertSome, insertNone, sent, received, progress_bar, pb_pos,
                   poolVars, finished, reordered, pack_calls, readVars>>

\* The task panics between two reads.
WorkerPanic(i) ==
    /\ opc = "map" /\ wpc[i] = "read"
    /\ wpc' = [wpc EXCEPT ![i] = "panicked"]
    /\ UNCHANGED <<files, opc, packResult, files_metadata, woff, whashes, wres,
                   store, shardLock, chan, senderOpen, wtpc, wtmsg, wtResult,
                   joined, stream, wpos, wlog, wbuf, disk, insertSome, insertNone, sent, received, progress_bar, pb_pos,
                   poolVars, finished, reordered, pack_calls, readVars>>

\* collect into a Result stops handing out tasks once one has failed.
WorkerSkip(i) ==
    /\ opc = "map" /\ wpc[i] = "start"
    /\ \E j \in Files : wpc[j] \in {"failed", "panicked"}
    /\ wpc' = [wpc EXCEPT ![i] = "skipped"]
    /\ UNCHANGED <<files, opc, packResult, files_metadata, woff, whashes, wres,
                   store, shardLock, chan, senderOpen, wtpc, wtmsg, wtResult,
                   joined, stream, wpos, wlog, wbuf, disk, insertSome, insertNone, sent, received, progress_bar, pb_pos,
                   poolVars, finished, reordered, pack_calls, readVars>>

\* One writer.write_all of the loop body fails: the thread returns the error
\* and its receiver is dropped with whatever was queued.
WtWriteError ==
    /\ wtpc \in {"hash", "orig", "clen", "data"}
    /\ wtpc' = "done"
    /\ wtResult' = Err("WriterError")
    /\ chan' = <<>>
    /\ UNCHANGED <<files, opc, packResult, files_metadata, wpc, woff, whashes,
                   wres, store, shardLock, senderOpen, wtmsg, joined, stream,
                   wpos, wlog, wbuf, disk, insertSome, insertNone, sent, received, progress_bar, pb_pos,
                   poolVars, finished, reordered, pack_calls, readVars>>

\* The loop has ended and writer.flush() fails.
WtFlushError ==
    /\ wtpc = "recv" /\ chan = <<>> /\ ~senderOpen
    /\ wtpc' = "done"
    /\ wtResult' = Err("FlushError")
    /\ UNCHANGED <<files, opc, packResult, files_metadata, wpc, woff, whashes,
                   wres, store, shardLock, chan, senderOpen, wtmsg, joined,
                   stream, wpos, wlog, wbuf, disk, insertSome, insertNone, sent, received, progress_bar, pb_pos,
                   poolVars, finished, reordered, pack_calls, readVars>>

\* The owner drops the ArchiveWriter after pack failed: its sender field, if
\* still Some, is dropped with it.
DropWriter ==
    /\ opc \in {"failed", "unwound"} /\ senderOpen
    /\ senderOpen' = FALSE
    /\ UNCHANGED <<files, opc, packResult, files_metadata, wpc, woff, whashes,
                   wres, store, shardLock, chan, wtpc, wtmsg, wtResult, joined,
                   stream, wpos, wlog, wbuf, disk, insertSome, insertNone, sent, received, progress_bar, pb_pos,
                   poolVars, finished, reordered, pack_calls, readVars>>

NextFault ==
    \/ Next
    \/ \E i \in Files : \/ WorkerOpenError(i)
                        \/ WorkerReadError(i)
                        \/ WorkerCompressError(i)
                        \/ WorkerPanic(i)
                        \/ WorkerSkip(i)
    \/ WtWriteError
    \/ WtFlushError
    \/ DropWriter

SpecFault == InitFault /\ [][NextFault]_vars

\* A worker's process_file has returned an error.
WorkerFailed == \E i \in Files : wpc[i] = "failed"

\* The writer thread has returned an error.
ThreadFailed == wtpc = "done" /\ ~wtResult.ok

\* C12: once a worker has failed or the writer thread has returned a write or
\* flush error, pack never returns Ok: it is not in its success state, its
\* result is not Ok, and when it has returned it has returned an error.
C12_NoPartialSuccess ==
    (WorkerFailed \/ ThreadFailed) =>
        /\ opc \notin {"patch", "meta", "size", "done"}
        /\ ~packResult.ok
        /\ (opc = "failed" => packResult.err # "none")

\* The thread failed on a write while every worker succeeded, and pack has
\* returned the error taken from the join.
C12_Witness ==
    /\ opc = "failed"
    /\ ThreadFailed /\ wtResult.err = "WriterError"
    /\ \A i \in Files : wpc[i] = "done"
    /\ packResult.err = "Writer Thread Failed"

\* A worker's task has ended in an error or a panic.
WorkerFailure == \E i \in Files : wpc[i] \in {"failed", "panicked"}

\* C13: when pack has returned or unwound with a worker's failure, the
\* failure is reported (an error result, or the panic itself), the producer
\* side of the channel is closed and the writer thread has terminated.
C13_ThreadNotLeftRunning ==
    (opc \in {"failed", "unwound"} /\ WorkerFailure) =>
        /\ (opc = "failed" => ~packResult.ok /\ packResult.err # "none")
        /\ ~senderOpen
        /\ wtpc = "done"

\* Total length of the chunk records of a set of windows.
RECURSIVE RecordsLen(_)
RecordsLen(ws) ==
    IF ws = {} THEN 0
    ELSE LET w == CHOOSE x \in ws : TRUE
         IN  Len(ChunkRecord(w)) + RecordsLen(ws \ {w})

\* header + timestamp + chunk count + all chunk records + File Table.
FinishedArchiveLen ==
    Len(magic_version(VERSION)) + U64_LEN + U64_LEN
      + RecordsLen(AllWindows(files))
      + Len(Concat(MetaWrites(files_metadata)))

\* C14: when pack has returned Ok, the value is the length of the output file
\* on disk with nothing left in the BufWriter, and that length is the length
\* of header + timestamp + chunk count + all chunk records + File Table.
C14_ReturnsOnDiskSize ==
    (opc = "done" /\ packResult.ok) =>
        /\ packResult.val = disk
        /\ wbuf = 0
        /\ disk = Len(stream)
        /\ disk = FinishedArchiveLen

\* pack has returned the size of an archive with at least one chunk record
\* and two File Table entries.
C14_Witness ==
    /\ opc = "done" /\ packResult.ok
    /\ packResult.val = FinishedArchiveLen
    /\ store # {}
    /\ Len(files_metadata) = 2

\* ------------------------------------- specification: listing an archive
\*
\* SpecList opens an archive found on disk and calls get_summary once.  The
\* archives have the layout pack produces; a chunk payload may be bytes that
\* zstd cannot decode, and the original sizes of the file table are free.

\* A chunk record with the payload given.
RawRecord(chunk, payload) ==
    hash_chunk(chunk) \o u64(CHUNK_SIZE) \o u64(Len(payload)) \o payload

\* A payload that decompress rejects.
BadPayload == <<1>>

\* Chunk tables: none, one or two records; the first may be undecodable.
ListChunkTables ==
    { <<>>,
      <<RawRecord(<<1, 1>>, compress(<<1, 1>>))>>,
      <<RawRecord(<<1, 1>>, BadPayload)>>,
      <<RawRecord(<<1, 1>>, BadPayload), RawRecord(<<1, 2>>, compress(<<1, 2>>))>> }

\* Original sizes: empty, smaller than any archive, larger than every archive.
ListSizes == {0, 3, 200}

ListHashLists ==
    { <<>>, <<hash_chunk(<<1, 1>>)>>, <<hash_chunk(<<1, 1>>), hash_chunk(<<1, 2>>)>> }

ListEntry(i, size, hs) ==
    [path |-> path_bytes(RelPath(i)), size |-> size, hashes |-> hs]

\* File tables: no entry, one or two.
ListFileTables ==
    { <<>> }
      \cup { <<ListEntry(1, n, hs)>> : n \in ListSizes, hs \in ListHashLists }
      \cup { <<ListEntry(1, n, hs), ListEntry(2, m, gs)>> :
               n \in ListSizes, hs \in ListHashLists,
               m \in ListSizes, gs \in ListHashLists }

ListArchive(now, records, table) ==
    magic_version(VERSION) \o u64(now) \o u64(Len(records))
      \o Concat(records) \o Concat(MetaWrites(table))

InitList ==
    /\ \E now \in TimeStamps, records \in ListChunkTables, table \in ListFileTables :
          PackDoneWithTable(ListArchive(now, records, table), table)
    /\ InitRead
    /\ running_version = VERSION

NextList ==
    \/ ReaderOpen
    \/ GetSummary

SpecList == InitList /\ [][NextList]_vars

\* The sum of the original sizes in the file table pack wrote.
TableTotal == Sum([i \in 1..Len(files_metadata) |-> files_metadata[i].size])

\* C15: the reduction percentage of a summary is 0 when the total original
\* size is 0, with no division by zero; otherwise it is the fraction
\* (1 - archive_size / total) * 100, which is <= 0 whenever the archive is at
\* least as large as the total and positive only when it is smaller.
C15_ReductionPercentage ==
    summary.ok =>
        LET rp == summary.val.reduction_percentage
            t  == TableTotal
            a  == Len(stream)
        IN  /\ rp.den > 0
            /\ (t = 0 => rp.num = 0)
            /\ (t > 0 => rp.num * t = (t - a) * 100 * rp.den)
            /\ (a >= t => rp.num <= 0)
            /\ (rp.num > 0 => a < t)

\* A summary of an archive that lists files, all of them empty.
C15_Witness ==
    /\ summary.ok
    /\ Len(summary.val.files) = 2
    /\ summary.val.total_original_size = 0
    /\ summary.val.reduction_percentage.num = 0

\* A summary whose reduction is positive.
C15_WitnessPositive ==
    /\ summary.ok
    /\ summary.val.reduction_percentage.num > 0
    /\ summary.val.archive_size < summary.val.total_original_size

\* The chunk records of the archive being listed.
ListedRecords == chunk_records(stream, ChunkTableStart, CountField).val

\* C16: get_summary on an opened well-formed archive succeeds without a chunk
\* having been decompressed (the chunk map stays empty, and an undecodable
\* payload does not matter); unique_chunks is the header's chunk-count field,
\* files has one entry per File Table entry, in table order, with that entry's
\* path and original size, and total_original_size is the sum of those sizes.
C16_ListingFaithful ==
    /\ (rpc = "indexed" /\ summary.err # "none") => summary.ok
    /\ summary.ok =>
          /\ chunk_map = <<>>
          /\ summary.val.unique_chunks = CountField
          /\ Len(summary.val.files) = Len(files_metadata)
          /\ \A i \in 1..Len(files_metadata) :
                /\ summary.val.files[i].path = files_metadata[i].path
                /\ summary.val.files[i].original_size = files_metadata[i].size
          /\ summary.val.total_original_size = TableTotal

\* A summary of two files of different sizes of an archive whose first chunk
\* payload cannot be decompressed.
C16_Witness ==
    /\ summary.ok
    /\ Len(summary.val.files) = 2
    /\ summary.val.files[1].original_size # summary.val.files[2].original_size
    /\ summary.val.total_original_size = 203
    /\ summary.val.unique_chunks = 2
    /\ ~decompress(ListedRecords[1].data, EXPECTED_MAX_CHUNK_SIZE).ok

\* The digests for which an insert call has returned.
Inserted == { d \in DOMAIN insertSome : insertSome[d] + insertNone[d] > 0 }

\* The workers whose pending insert has just returned Some for digest d.
ReturnedSome(d) ==
    { i \in Files : /\ wpc[i] = "vacant" /\ wpc'[i] = "send"
                    /\ hash_chunk(Window(files[i].data, woff[i])) = d }

CeilChunks(S) == (S + CHUNK_SIZE - 1) \div CHUNK_SIZE

\* C18: when process_file has returned for a file of S bytes, its digest
\* sequence has exactly ceil(S / CHUNK_SIZE) elements and the k-th is the
\* digest of bytes (k-1)*CHUNK_SIZE+1 .. min(k*CHUNK_SIZE, S) of the file,
\* whether the chunk was new or a duplicate; so 2 x CHUNK_SIZE bytes give 2
\* digests and an empty file gives none.
C18_DigestSequence ==
    \A i \in Files :
        wpc[i] = "done" =>
            LET S == Len(files[i].data)
                hs == wres[i].val.hashes
            IN  /\ Len(hs) = CeilChunks(S)
                /\ \A k \in 1..Len(hs) :
                      hs[k] = hash_chunk(SubSeq(files[i].data,
                                                (k - 1) * CHUNK_SIZE + 1,
                                                Min(k * CHUNK_SIZE, S)))
                /\ (S = 2 * CHUNK_SIZE => Len(hs) = 2)
                /\ (S = 0 => hs = <<>>)

\* process_file has returned for a file of two full chunks with the same
\* bytes: two equal digests, one of which came from a duplicate insert; and
\* for an empty file.
C18_Witness ==
    /\ \E i \in Files :
          /\ wpc[i] = "done"
          /\ Len(files[i].data) = 2 * CHUNK_SIZE
          /\ Len(wres[i].val.hashes) = 2
          /\ wres[i].val.hashes[1] = wres[i].val.hashes[2]
          /\ insertNone[wres[i].val.hashes[1]] >= 1
    /\ \E i \in Files :
          wpc[i] = "done" /\ files[i].data = <<>> /\ wres[i].val.hashes = <<>>

\* The window, among those of the input files, whose digest is d.
WindowOf(d) == CHOOSE w \in AllWindows(files) : hash_chunk(w) = d

\* C19: the original-length value of every message in the channel, of the
\* message the writer thread is writing, and of every chunk record written to
\* the archive, is the number of bytes of the window the chunk was read as.
C19_OriginalLength ==
    /\ \A k \in 1..Len(chan) :
          chan[k].original_size = Len(WindowOf(chan[k].hash))
    /\ wtpc \in {"hash", "orig", "clen", "data"} =>
          wtmsg.original_size = Len(WindowOf(wtmsg.hash))
    /\ TableRecords.ok =>
          \A k \in 1..Len(TableRecords.val) :
              TableRecords.val[k].orig = Len(WindowOf(TableRecords.val[k].hash))

\* The file-count field and the File Table of the finished archive, as a
\* reader finds them: paths and sizes, and digest sequences.
IndexedArchive == ArchiveReaderNew(stream, VERSION)

TablePathsSizes ==
    summary_files(stream, IndexedArchive.val.file_table_offset,
                  IndexedArchive.val.file_count)

OnDisk == SubSeq(stream, 1, disk)

\* C21: from the return of ArchiveWriter::new until pack patches the count,
\* the output file holds on disk, from offset 0, the magic prefix and the
\* running version, an 8-byte creation timestamp and 8 zero bytes;
\* chunks_count_position is the offset of those zero bytes; verify_header on
\* the file yields the running VERSION.  When new has just returned the file
\* holds nothing else and nothing is left in the BufWriter.
C21_HeaderOnDisk ==
    opc \in {"created", "map", "drop", "join"} =>
        LET hl == Len(magic_version(VERSION))
        IN  /\ disk >= hl + U64_LEN + U64_LEN
            /\ SubSeq(OnDisk, 1, hl) = PREFIX \o VERSION
            /\ \E now \in TimeStamps :
                  SubSeq(OnDisk, hl + 1, hl + U64_LEN) = to_le_bytes(now, U64_LEN)
            /\ chunks_count_position = hl + U64_LEN
            /\ SubSeq(OnDisk, chunks_count_position + 1,
                      chunks_count_position + U64_LEN) = [k \in 1..U64_LEN |-> 0]
            /\ verify_header(OnDisk, VERSION).ok
            /\ verify_header(OnDisk, VERSION).val = VERSION
            /\ (opc = "created" =>
                  /\ wbuf = 0
                  /\ disk = hl + U64_LEN + U64_LEN
                  /\ Len(stream) = disk)

\* new has returned and pack has not started: two files are waiting.
C21_Witness ==
    /\ opc = "created"
    /\ Len(files) = 2
    /\ disk = Len(PREFIX) + Len(VERSION) + U64_LEN + U64_LEN
    /\ wlog = << <<"new", 0, Len(PREFIX) + Len(VERSION)>>,
                 <<"new", Len(PREFIX) + Len(VERSION), U64_LEN>>,
                 <<"new", Len(PREFIX) + Len(VERSION) + U64_LEN, U64_LEN>> >>

\* C22: the third write of new is the placeholder: 8 bytes at the offset
\* write_placeholder_u64 returned, zero until patched.  The step in which
\* pack calls patch_u64(pos, v) replaces exactly the 8 bytes at pos by v in
\* little-endian, leaves every other byte and the length of the stream as
\* they were and leaves the stream position at the end; the next write of
\* pack (the File Table) therefore appends: the stream before it is a proper
\* prefix of the stream after it.
C22_PlaceholderThenPatch ==
    /\ [](/\ wlog[3] = <<"new", chunks_count_position, U64_LEN>>
          /\ opc \in {"created", "map", "drop", "join", "patch"} =>
                SubSeq(stream, chunks_count_position + 1,
                       chunks_count_position + U64_LEN) = [k \in 1..U64_LEN |-> 0])
    /\ [][ /\ (opc = "patch" /\ opc' = "meta") =>
                 LET pos == chunks_count_position
                 IN  /\ Len(stream') = Len(stream)
                     /\ SubSeq(stream', pos + 1, pos + U64_LEN)
                          = to_le_bytes(store_len, U64_LEN)
                     /\ \A k \in 1..Len(stream) :
                           (k <= pos \/ k > pos + U64_LEN) => stream'[k] = stream[k]
                     /\ wpos' = Len(stream')
           /\ (opc = "meta" /\ opc' = "size") =>
                 /\ Len(stream') > Len(stream)
                 /\ SubSeq(stream', 1, Len(stream)) = stream ]_vars

\* The count 2 has been patched into an archive that already holds chunk
\* records after the placeholder, and the position is at the end.
C22_Witness ==
    /\ opc = "meta"
    /\ store_len = 2
    /\ CountField = 2
    /\ Len(stream) > chunks_count_position + U64_LEN
    /\ wpos = Len(stream)

\* ------------------------- specification: unpacking payloads of any size
\*
\* SpecCeiling unpacks archives whose chunk payloads decode to a chunk, to
\* exactly EXPECTED_MAX_CHUNK_SIZE bytes, or to more.

CeilingPayloads ==
    { compress(<<1, 2>>),
      <<1, EXPECTED_MAX_CHUNK_SIZE>>,
      <<1, EXPECTED_MAX_CHUNK_SIZE + 1>>,
      <<1, EXPECTED_MAX_CHUNK_SIZE, 2, 1>> }

\* Chunk tables: one record, or two with different digests.
CeilingChunkTables ==
    { <<RawRecord(<<1, 1>>, p)>> : p \in CeilingPayloads }
      \cup { <<RawRecord(<<1, 1>>, p), RawRecord(<<1, 2>>, q)>> :
               p \in CeilingPayloads, q \in CeilingPayloads }

CeilingHashLists ==
    { <<hash_chunk(<<1, 1>>)>>, <<hash_chunk(<<1, 2>>)>>,
      <<hash_chunk(<<1, 1>>), hash_chunk(<<1, 2>>)>> }

CeilingFileTables ==
    { <<ListEntry(1, CHUNK_SIZE, hs)>> : hs \in CeilingHashLists }
      \cup { <<ListEntry(1, CHUNK_SIZE, hs), ListEntry(2, CHUNK_SIZE, gs)>> :
               hs \in CeilingHashLists, gs \in CeilingHashLists }

InitCeiling ==
    /\ \E now \in TimeStamps, records \in CeilingChunkTables,
          table \in CeilingFileTables :
          PackDoneWithTable(ListArchive(now, records, table), table)
    /\ InitRead
    /\ running_version = VERSION

SpecCeiling == InitCeiling /\ [][NextUnpack]_vars

\* The chunk records of the archive whose payload would decode to more than
\* the safety ceiling.
Oversized ==
    { k \in 1..Len(ListedRecords) :
        ExpandedLen(ListedRecords[k].data) > EXPECTED_MAX_CHUNK_SIZE }

\* C23: no chunk longer than EXPECTED_MAX_CHUNK_SIZE is ever in the chunk
\* map; and when some chunk record's payload would decode to more than the
\* ceiling, unpack never returns Ok, produces no chunk and no file, and has
\* returned an error once it has returned.
C23_SizeCeiling ==
    /\ \A d \in DOMAIN chunk_map : Len(chunk_map[d]) <= EXPECTED_MAX_CHUNK_SIZE
    /\ (rpc # "none" /\ rpc # "error" /\ Oversized # {}) =>
          /\ ~unpackResult.ok
          /\ chunk_map = <<>>
          /\ outTree = <<>>
          /\ rpc \in {"indexed", "done"}
          /\ (rpc = "done" => unpackResult.err = "ReaderError")

\* unpack has failed on an archive whose first record is sound and whose
\* second record decodes to one byte more than the ceiling.
C23_Witness ==
    /\ rpc = "done"
    /\ ~unpackResult.ok
    /\ Len(ListedRecords) = 2
    /\ Oversized = {2}
    /\ ExpandedLen(ListedRecords[2].data) = EXPECTED_MAX_CHUNK_SIZE + 1

\* unpack has succeeded with a chunk of exactly the ceiling in the map.
C23_WitnessAtCeiling ==
    /\ rpc = "done" /\ unpackResult.ok
    /\ \E d \in DOMAIN chunk_map : Len(chunk_map[d]) = EXPECTED_MAX_CHUNK_SIZE

\* The input files whose path does not fall under the writer's root.
OutsideRoot == { i \in Files : ~strip_prefix(files[i].path, InputRoot).ok }

\* The insert calls that have returned, over all digests.
InsertCalls ==
    Sum([k \in 1..Len(files) |->
           IF \E j \in 1..(k - 1) : files[j].data = files[k].data THEN 0
           ELSE Sum([n \in 1..Len(WindowsFrom(files[k].data, 0)) |->
                      LET d == hash_chunk(WindowsFrom(files[k].data, 0)[n])
                      IN  IF \E m \in 1..(n - 1) :
                                hash_chunk(WindowsFrom(files[k].data, 0)[m]) = d
                            THEN 0 ELSE insertSome[d] + insertNone[d]])])

\* C24: the task of a file whose path is not under the root never gets past
\* strip_prefix: it reads nothing, records no digest, and ends with the
\* strip_prefix error (or is never run); all insert calls made are those of
\* the other files; pack never gets past its collect, its result is never Ok,
\* and when it has returned it has returned an error.
C24_PathOutsideRoot ==
    \A i \in OutsideRoot :
        /\ wpc[i] \in {"start", "failed", "skipped"}
        /\ woff[i] = 0 /\ whashes[i] = <<>>
        /\ (wpc[i] = "failed" => ~wres[i].ok /\ wres[i].err = "StripPrefixError")
        /\ InsertCalls <= Sum([j \in Files |->
                                 IF j \in OutsideRoot THEN 0
                                 ELSE CeilChunks(Len(files[j].data))])
        /\ opc \in {"created", "map", "failed", "unwound"}
        /\ ~packResult.ok
        /\ (opc = "failed" => packResult.err # "none")

\* pack has returned the strip_prefix error of the second file after the
\* first file was processed to its end.
C24_Witness ==
    /\ opc = "failed"
    /\ packResult.err = "StripPrefixError"
    /\ OutsideRoot = {2}
    /\ wpc[1] = "done" /\ wpc[2] = "failed"
    /\ InsertCalls = CeilChunks(Len(files[1].data))

\* C25: a pack of no file never fails.  With the sender dropped and nothing
\* queued the writer thread can end, and when it has ended it returned Ok;
\* the finished archive is header, timestamp, chunk count 0 and file count 0,
\* and pack returned its length; the archive opens, and the reader finds and
\* lists 0 chunks and 0 files.
C25_EmptyFileList ==
    files = <<>> =>
        /\ opc \notin {"failed", "unwound"}
        /\ store = {} /\ chan = <<>>
        /\ (opc = "join" /\ wtpc # "done") => (wtpc = "recv" /\ ~senderOpen)
        /\ (wtpc = "done" => wtResult.ok /\ ~senderOpen)
        /\ (opc = "done" =>
              /\ packResult.ok
              /\ \E now \in TimeStamps :
                    stream = magic_version(VERSION) \o u64(now) \o u64(0) \o u32(0)
              /\ packResult.val = Len(stream))
        /\ rpc # "error"
        /\ (rpc # "none" =>
              /\ rd.number_of_chunks = 0 /\ rd.file_count = 0
              /\ get_summary(stream, rd).ok
              /\ get_summary(stream, rd).val.files = <<>>
              /\ get_summary(stream, rd).val.unique_chunks = 0
              /\ get_summary(stream, rd).val.total_original_size = 0)
        /\ (rpc = "done" => unpackResult.ok /\ outTree = <<>>)

\* The archive of an empty file list has been written and opened.
C25_Witness ==
    /\ files = <<>>
    /\ opc = "done" /\ packResult.ok
    /\ rpc = "indexed"
    /\ rd.file_count = 0 /\ rd.number_of_chunks = 0
    /\ get_summary(stream, rd).ok

\* ------------------------------------------------------------------ C26
\* Packing and unpacking with or without a progress bar: the failures of
\* SpecFault, and each of the two bars present or absent.
InitSink ==
    /\ \E fs \in FaultFileLists, sink \in BOOLEAN : InitPackSink(fs, sink)
    /\ \E sink \in BOOLEAN : InitReadSink(sink)
    /\ running_version = VERSION

SpecSink == InitSink /\ [][NextFault]_vars

\* Input files whose process_file has returned Ok.
FilesProcessed == { i \in Files : wpc[i] = "done" }

\* Output entries rebuild_files has written completely.
EntriesWritten == { e \in DOMAIN epc : epc[e] = "ok" }

\* C26: the progress sink is optional and advanced once per completed file.
\* With a sink, pack has called inc(1) once for each file whose process_file
\* returned Ok and for no other, so M times when pack of M files succeeds;
\* rebuild_files has called it once for each entry written.  Without a sink
\* nothing is counted, and pack and unpack do what they do with one: pack of
\* files under the root returns Ok with the size of the finished archive, and
\* unpack of it returns Ok with every input file at its path with its bytes.
C26_ProgressPerFile ==
    /\ pb_pos = IF progress_bar THEN Cardinality(FilesProcessed) ELSE 0
    /\ opc = "done" /\ progress_bar => pb_pos = Len(files)
    /\ rpc \in {"rebuild", "done"} =>
          unpack_pos = IF unpack_bar THEN Cardinality(EntriesWritten) ELSE 0
    /\ opc = "done" =>
          /\ packResult.ok /\ packResult.val = FinishedArchiveLen
          /\ rpc = "done" =>
                /\ unpackResult.ok
                /\ DOMAIN outTree = { RelBytes(i) : i \in Files }
                /\ \A i \in Files : outTree[RelBytes(i)] = files[i].data

\* Pack and unpack of two files have both returned Ok with no sink supplied.
C26_Witness ==
    /\ ~progress_bar /\ ~unpack_bar
    /\ Len(files) = 2
    /\ opc = "done" /\ packResult.ok
    /\ rpc = "done" /\ unpackResult.ok
    /\ pb_pos = 0 /\ unpack_pos = 0

\* With a sink, pack of two files has failed on one of them after the other
\* was processed: the bar stands at one.
C26_WitnessFailedFile ==
    /\ progress_bar
    /\ opc = "failed"
    /\ \E i, j \in Files : wpc[i] = "done" /\ wpc[j] = "failed"
    /\ pb_pos = 1

\* ------------------------------------------------------------------ C27
\* The digest of the window worker i is at.
DigestAt(i) == hash_chunk(Window(files[i].data, woff[i]))

\* Calls of compress made for digest d that returned an error: insert returned
\* AppError::Compression to process_file, which stopped at that window.
CompressFailures(d) ==
    Cardinality({ i \in Files : /\ wpc[i] = "failed"
                                /\ wres[i].err = "Compression"
                                /\ DigestAt(i) = d })

\* Calls of compress made for digest d: those in a call of insert that went
\* on to return Some, and those that failed.
CompressCalls(d) == insertSome[d] + CompressFailures(d)

\* C27 as stated: over any interleaving, compress has been invoked exactly
\* once for every digest that has been inserted.
C27_ExactlyOneCompress ==
    \A d \in DOMAIN insertSome : d \in store => CompressCalls(d) = 1

\* C27, amended: compression is gated by the check-and-set.  A call of insert
\* that is about to compress found the digest absent and holds its shard, so
\* no call that finds the digest present compresses; a digest is in the set
\* exactly when one call of compress for it has succeeded, and never more
\* than one has; unless a call of compress for it has failed, that one call is
\* the only one made.
C27_OneSuccessfulCompress ==
    /\ \A i \in Files :
          wpc[i] = "vacant" =>
             /\ ~occupied(DigestAt(i))
             /\ shardLock[Shard(DigestAt(i))] = i
    /\ \A d \in DOMAIN insertSome :
          /\ insertSome[d] = IF occupied(d) THEN 1 ELSE 0
          /\ ~occupied(d) => insertNone[d] = 0
          /\ occupied(d) /\ CompressFailures(d) = 0 => CompressCalls(d) = 1

\* Two files share a chunk: compress failed in the call for one of them, and
\* the call for the other then compressed and inserted the digest.
C27_Witness ==
    \E d \in DOMAIN insertSome :
        /\ occupied(d)
        /\ insertSome[d] = 1
        /\ CompressFailures(d) = 1

\* ------------------------------------------------------------------ C28
\* The chunk record the writer thread writes for message m.
MessageRecord(m) ==
    m.hash \o u64(m.original_size) \o u64(Len(m.compressed_data))
           \o m.compressed_data

\* The fields of the current message's record written so far.
FieldsWritten ==
    CASE wtpc = "orig" -> wtmsg.hash
      [] wtpc = "clen" -> wtmsg.hash \o u64(wtmsg.original_size)
      [] wtpc = "data" -> wtmsg.hash \o u64(wtmsg.original_size)
                                     \o u64(Len(wtmsg.compressed_data))
      [] OTHER -> <<>>

\* The thread is inside the loop body, writing the message it received last.
InLoopBody == wtpc \in {"hash", "orig", "clen", "data"}

\* The messages whose records the thread has written completely.
Written ==
    IF InLoopBody THEN SubSeq(received, 1, Len(received) - 1) ELSE received

\* C28: the writer thread writes exactly one chunk record per message, in the
\* order the messages were received, which is the order they were sent in:
\* unless a write has failed, the bytes the thread has written are the records
\* (digest, original length, compressed length, compressed bytes) of the
\* messages received, in that order, the last one up to the field being
\* written, and the messages sent are those received followed by those still
\* in the channel.  When the thread has returned Ok the channel is closed
\* and empty, every message sent has its record in the stream, and those
\* bytes are on disk.
C28_WriterThreadFifo ==
    /\ ~(wtpc = "done" /\ ~wtResult.ok) =>
          /\ sent = received \o chan
          /\ InLoopBody => received # <<>> /\ wtmsg = received[Len(received)]
          /\ SubSeq(stream, ChunkTableStart + 1, ThreadEnd) =
                Concat([k \in 1..Len(Written) |-> MessageRecord(Written[k])])
                  \o FieldsWritten
    /\ (wtpc = "done" /\ wtResult.ok) =>
          /\ ~senderOpen /\ chan = <<>>
          /\ received = sent
          /\ RecordsWritten = Len(sent)
          /\ disk >= ThreadEnd

\* The thread has returned Ok after writing the records of two different
\* messages.
C28_Witness ==
    /\ wtpc = "done" /\ wtResult.ok
    /\ Len(sent) >= 2
    /\ sent[1] # sent[2]
    /\ received = sent

\* Two messages wait in the channel while the thread is writing a third.
C28_WitnessQueued ==
    /\ InLoopBody
    /\ Len(chan) >= 2

\* ------------------------------------------------------------------ C29
\* The steps of the thread that called pack.
Orchestrator ==
    \/ PackStart
    \/ PackCollect
    \/ PackDropSender
    \/ PackJoin
    \/ PackPatch
    \/ PackMeta
    \/ PackSize

\* The steps of the rayon task of file i.
Worker(i) ==
    /\ i \in Files
    /\ \/ WorkerStart(i)
       \/ WorkerEntry(i)
       \/ WorkerInsert(i)
       \/ WorkerSend(i)
       \/ WorkerFinish(i)

\* The steps of the writer thread.
WriterThread == WtRecv \/ WtWrite \/ WtClose

\* One pack, in which a write or the flush of the writer thread may fail.
NextPack ==
    \/ \E i \in Files : Worker(i)
    \/ WriterThread
    \/ Orchestrator
    \/ WtWriteError
    \/ WtFlushError

\* Pack with the thread that called pack and the writer thread being
\* scheduled again and again: each takes a step it stays able to take.
\* Nothing is assumed of the rayon tasks, and a failure may happen or not.
SpecFair ==
    /\ InitFault
    /\ [][NextPack]_vars
    /\ WF_vars(Orchestrator)
    /\ WF_vars(WriterThread)

\* pack has returned to its caller.
PackReturned == opc \in {"done", "failed"}

\* C29: pack terminates without deadlock.  Once every worker has finished,
\* pack returns, Ok or with an error.  On the way the sender is dropped before
\* the join (while pack waits in the join the channel is closed, so the
\* thread is not waiting for pack to send or close), and pack takes the lock
\* of the output stream only once the thread has returned and been joined.
C29_PackTerminates ==
    /\ AllWorkersDone ~> PackReturned
    /\ [](opc = "join" => ~senderOpen)
    /\ [](opc \in {"patch", "meta", "size", "done"} =>
             thread_returned /\ joined /\ wtResult.ok)

\* Every worker has finished, the thread has been joined after writing at
\* least one record, and pack has returned Ok.
C29_Witness ==
    /\ AllWorkersDone /\ files # <<>>
    /\ RecordsWritten >= 1
    /\ joined /\ thread_returned
    /\ opc = "done" /\ packResult.ok

\* Every worker has finished, the thread has returned an error, and pack has
\* returned it after the join.
C29_WitnessFailed ==
    /\ AllWorkersDone /\ files # <<>>
    /\ joined /\ thread_returned /\ ~wtResult.ok
    /\ opc = "failed"

\* ------------------------------------------------------------------ C30
\* A seek or read_exact of read_chunks fails (an I/O error of the archive
\* file), after any number of records: read_chunks returns ReaderError and
\* unpack returns it.
UnpackReadError ==
    /\ rpc = "indexed"
    /\ rpc' = "done"
    /\ unpackResult' = Err("ReaderError")
    /\ \E k \in 0..rd.number_of_chunks :
          /\ k <= chunks_read(stream, rd.chunk_table_offset, rd.number_of_chunks)
          /\ unpack_pos' = IF unpack_bar THEN k ELSE unpack_pos
          /\ rpos' = chunks_end(stream, rd.chunk_table_offset, k)
    /\ rcalls' = Append(rcalls, "unpack")
    /\ UNCHANGED <<packVars, upool, running_version, summary, unpack_bar, rd, chunk_map,
                   entries, epc, outTree>>

NextPhase ==
    \/ NextUnpack
    \/ UnpackReadError

\* One unpack of an archive whose payloads may not decompress, in which
\* reading the chunk table may fail.
SpecPhase == InitCeiling /\ [][NextPhase]_vars

\* Something has been created under the output root, or the task of an entry
\* has started.
OutputTouched == outTree # <<>> \/ \E e \in DOMAIN epc : epc[e] # "todo"

\* C30: unpack phase order.  Whenever anything has been created under the
\* output root, read_chunks has returned Ok and the map holds the chunk of
\* every record of the Chunk Table; an archive with a chunk that cannot be
\* decompressed never gets anything created; the step in which read_chunks
\* fails returns the error from unpack with nothing created; and nothing is
\* created once unpack has returned.
C30_ChunksBeforeFiles ==
    /\ [](OutputTouched =>
             /\ rpc \in {"rebuild", "done"}
             /\ read_chunks(stream, rd).ok
             /\ chunk_map = read_chunks(stream, rd).val
             /\ \A k \in 1..Len(ListedRecords) :
                   ListedRecords[k].hash \in DOMAIN chunk_map)
    /\ [](rpc \in {"indexed", "chunks", "rebuild", "done"}
             /\ ~read_chunks(stream, rd).ok =>
                /\ ~OutputTouched
                /\ rpc \in {"indexed", "done"}
                /\ rpc = "done" => ~unpackResult.ok)
    /\ [][/\ (rpc = "indexed" /\ rpc' = "done") =>
                ~unpackResult'.ok /\ outTree' = <<>> /\ chunk_map' = <<>>
          /\ rpc = "done" => outTree' = outTree]_vars

\* A file has been created, and the map holds the chunks of both records of
\* the Chunk Table.
C30_Witness ==
    /\ rpc = "rebuild"
    /\ \E e \in DOMAIN epc : epc[e] = "write"
    /\ Len(ListedRecords) = 2
    /\ Cardinality(DOMAIN chunk_map) = 2

\* unpack has returned the error of a second record that does not decompress,
\* after a first that does, and nothing has been created.
C30_WitnessFailed ==
    /\ rpc = "done" /\ ~unpackResult.ok
    /\ Len(ListedRecords) = 2
    /\ ~read_chunks(stream, rd).ok
    /\ chunks_read(stream, rd.chunk_table_offset, rd.number_of_chunks) = 1
    /\ outTree = <<>>

\* unpack has returned a read error on an archive whose chunks all
\* decompress, having read one of two records, with nothing created.
C30_WitnessReadError ==
    /\ rpc = "done" /\ ~unpackResult.ok
    /\ read_chunks(stream, rd).ok
    /\ entries = <<>>
    /\ unpack_pos = 1 /\ Len(ListedRecords) = 2
    /\ outTree = <<>>

\* ------------------------------------------------------------------ C31
\* The archive with every payload byte of its chunk records set to zero.
PayloadsBlanked ==
    [i \in 1..Len(stream) |->
        IF \E k \in 1..Len(ListedRecords) :
              /\ ListedRecords[k].at + HASH_LEN + U64_LEN + U64_LEN < i
              /\ i <= ListedRecords[k].at + HASH_LEN + U64_LEN + U64_LEN
                        + ListedRecords[k].clen
          THEN 0 ELSE stream[i]]

\* C31: indexing a well-formed archive with N chunk records.  The reader
\* records the offset just after the chunk-count field as chunk_table_offset,
\* N as number_of_chunks, and chunk_table_offset + the sum over the N records
\* of (16 + 8 + 8 + compressed length) + 4 as file_table_offset, the four
\* bytes before it being the file-count field; and what it records does not
\* depend on any payload byte.
C31_IndexOffsets ==
    rpc = "indexed" =>
        LET recs == ListedRecords
            table_end == rd.chunk_table_offset
                           + Sum([k \in 1..Len(recs) |->
                                    HASH_LEN + U64_LEN + U64_LEN + recs[k].clen])
        IN  /\ rd.chunk_table_offset = chunks_count_position + U64_LEN
            /\ rd.number_of_chunks = CountField
            /\ Len(recs) = rd.number_of_chunks
            /\ rd.file_table_offset = table_end + U32_LEN
            /\ rd.file_count = Len(files_metadata)
            /\ rd.file_count =
                  from_le_bytes(SubSeq(stream, table_end + 1, table_end + U32_LEN))
            /\ ArchiveReaderNew(PayloadsBlanked, running_version).ok
            /\ ArchiveReaderNew(PayloadsBlanked, running_version).val = rd

\* An archive of two records with payloads of different lengths, one of them
\* undecodable, and two File Table entries has been indexed.
C31_Witness ==
    /\ rpc = "indexed"
    /\ Len(ListedRecords) = 2
    /\ ListedRecords[1].clen # ListedRecords[2].clen
    /\ ListedRecords[1].clen # ListedRecords[1].orig
    /\ rd.file_count = 2

\* ------------------- specification: the thread cap of the command line

\* The largest --max-threads and the largest machine.
MaxThreads == 2
MaxCpus == 3

\* cap_max_threads(max_threads).expect(..): the first thing Commands::Pack
\* does.
CapMaxThreads ==
    /\ mpc = "start"
    /\ LET b == build_global(pool, max_threads, cpus)
       IN  IF b.ok THEN pool' = b.val /\ mpc' = "walk"
           ELSE pool' = pool /\ mpc' = "panicked"
    /\ UNCHANGED <<writerVars, max_threads, cpus, walkpc, finished, reordered, pack_calls, readVars>>

\* walk_dir, entries.into_par_iter().map(..): the task of entry e starts.
WalkStart(e) ==
    /\ mpc = "walk" /\ walkpc[e] = "todo"
    /\ running_walk < global_registry(pool, cpus)
    /\ walkpc' = [walkpc EXCEPT ![e] = "run"]
    /\ pool' = global_registry(pool, cpus)
    /\ UNCHANGED <<writerVars, max_threads, cpus, mpc, finished, reordered, pack_calls, readVars>>

\* The task of entry e has classified its entry.
WalkFinish(e) ==
    /\ mpc = "walk" /\ walkpc[e] = "run"
    /\ walkpc' = [walkpc EXCEPT ![e] = "done"]
    /\ UNCHANGED <<writerVars, max_threads, cpus, pool, mpc, finished, reordered, pack_calls, readVars>>

\* walk_dir returns the file list; main goes on to ArchiveWriter::new and pack.
WalkReturn ==
    /\ mpc = "walk" /\ \A e \in WalkEntries : walkpc[e] = "done"
    /\ mpc' = "pack"
    /\ UNCHANGED <<writerVars, max_threads, cpus, pool, walkpc, finished, reordered, pack_calls, readVars>>

\* squishrs pack -j max_threads on a machine of cpus CPUs, then squishrs
\* unpack -j max_threads of the archive on the same machine. Each command is
\* a process with a global pool of its own. The machine has one CPU or MaxCpus.
InitPool ==
    /\ \E fs \in { l \in FileLists : Len(l) = MaxFiles } : InitWriter(fs, TRUE)
    /\ max_threads \in 1..MaxThreads
    /\ cpus \in {1, MaxCpus}
    /\ pool = 0
    /\ mpc = "start"
    /\ walkpc = [e \in WalkEntries |-> "todo"]
    /\ InitRead
    /\ running_version = VERSION

NextPool ==
    \/ CapMaxThreads
    \/ \E e \in WalkEntries : WalkStart(e)
    \/ \E e \in WalkEntries : WalkFinish(e)
    \/ WalkReturn
    \/ Next

SpecPool == InitPool /\ [][NextPool]_vars

\* C32: the global pool is capped at max_threads exactly once, before any
\* parallel work, and a second installation fails; at no time do more than
\* max_threads tasks run at once in the directory walk, in pack's per-file
\* processing or in unpack's per-file reconstruction.
C32_PoolBounded ==
    /\ running_walk <= max_threads
    /\ running_process_file <= max_threads
    /\ running_rebuild <= max_threads
    /\ (\E e \in WalkEntries : walkpc[e] # "todo") =>
           pool = max_threads /\ ~build_global(pool, max_threads, cpus).ok
    /\ opc # "created" =>
           pool = max_threads /\ ~build_global(pool, max_threads, cpus).ok
    /\ upool <= max_threads

\* The chunk record pack writes for the window w, and the set of records and
\* the File Table bytes that the input list alone determines.
RecordOf(w) ==
    [hash |-> hash_chunk(w), orig |-> CHUNK_SIZE, data |-> compress(w)]
InputRecords == { RecordOf(w) : w \in AllWindows(files) }
InputTable ==
    Concat(MetaWrites(
        [i \in Files |->
            [path |-> to_string_lossy(path_bytes(strip_prefix(files[i].path, InputRoot).val)),
             size |-> Len(files[i].data),
             hashes |-> [k \in 1..Len(WindowsFrom(files[i].data, 0)) |->
                           hash_chunk(WindowsFrom(files[i].data, 0)[k])]]]))

\* The first digest of the input in list order.
FirstInputDigest ==
    hash_chunk(WindowsFrom(files[CHOOSE i \in Files : Len(files[i].data) > 0
                                   /\ \A j \in 1..(i - 1) : files[j].data = <<>>].data, 0)[1])

\* C33: whatever the interleaving of the workers and the writer thread and
\* whatever the pool size, a finished pack of one input list has written the
\* same set of chunk records (digest, original length, payload), the same chunk
\* count and byte-identical File Table bytes; only the order of the records
\* differs.  Unpacking the archive gives back the input whatever the order of
\* the records.
C33_InterleavingIndependent ==
    /\ opc = "done" =>
          LET recs == chunk_records(stream, ChunkTableStart, CountField)
          IN  /\ recs.ok
              /\ CountField = Cardinality(InputRecords)
              /\ { [hash |-> recs.val[k].hash, orig |-> recs.val[k].orig,
                    data |-> recs.val[k].data] : k \in 1..Len(recs.val) } = InputRecords
              /\ LET last == recs.val[Len(recs.val)]
                     table_at == IF recs.val = <<>> THEN ChunkTableStart
                                 ELSE last.at + HASH_LEN + U64_LEN + U64_LEN + last.clen
                 IN  SubSeq(stream, table_at + 1, Len(stream)) = InputTable
    /\ rpc = "done" =>
          /\ unpackResult.ok
          /\ DOMAIN outTree = { RelBytes(i) : i \in Files }
          /\ \A i \in Files : outTree[RelBytes(i)] = files[i].data

\* A finished pack and unpack whose first chunk record is not the first chunk
\* of the input.
C33_Witness ==
    /\ opc = "done" /\ rpc = "done" /\ unpackResult.ok
    /\ CountField >= 2
    /\ TableRecords.val[1].hash # FirstInputDigest

\* C34: the File Table lists the files in the order of the input list,
\* whatever order the process_file tasks returned in: the collected metadata
\* and the entries of the written table hold, at position i, the path and the
\* size of the i-th input file.
C34_TableInInputOrder ==
    /\ opc \in {"drop", "join", "patch", "meta", "size", "done"} =>
          /\ Len(files_metadata) = Len(files)
          /\ \A i \in Files :
                /\ files_metadata[i].path = to_string_lossy(RelBytes(i))
                /\ files_metadata[i].size = Len(files[i].data)
    /\ opc = "done" =>
          /\ FileTable.ok
          /\ Len(FileTable.val) = Len(files)
          /\ \A i \in Files :
                FileTable.val[i].relative_path = to_string_lossy(RelBytes(i))

\* A finished pack whose second file's task returned before the first's.
C34_Witness ==
    /\ opc = "done"
    /\ reordered
    /\ FileTable.val[1].relative_path # FileTable.val[2].relative_path

\* ------------------------- specification: pack called again on one writer

\* The calls of pack made on one ArchiveWriter.
MaxPackCalls == 3

\* A file of one chunk that no file of FileLists holds.
NewFile == [path |-> InputRoot \o <<110>>, data |-> [k \in 1..CHUNK_SIZE |-> 2]]

\* process_file of f on a writer whose sender has been taken, with st in the
\* chunk store: every chunk found in the store is passed over; the first one
\* that is not is compressed and entered, and then the missing sender ends
\* the task with "Sender channel is closed".
process_file_closed(f, st) ==
    LET ws == WindowsFrom(f.data, 0)
        missing == { k \in 1..Len(ws) : hash_chunk(ws[k]) \notin st }
    IN  IF ~strip_prefix(f.path, InputRoot).ok
          THEN [ok |-> FALSE, err |-> "StripPrefixError", entered |-> {}]
        ELSE IF missing # {}
          THEN [ok |-> FALSE, err |-> "Other",
                entered |-> { hash_chunk(ws[CHOOSE k \in missing :
                                                \A j \in missing : k <= j]) }]
        ELSE [ok |-> TRUE,
              val |-> [path |-> to_string_lossy(path_bytes(strip_prefix(f.path, InputRoot).val)),
                       size |-> Len(f.data),
                       hashes |-> [k \in 1..Len(ws) |-> hash_chunk(ws[k])]],
              entered |-> {}]

\* One more call pack(fs) after pack has returned: the tasks run as above;
\* sender.take() and writer_handle.take() find None; then patch_u64,
\* write_files_metadata and the size, as in the first call.
PackAgain(fs) ==
    /\ opc = "done" /\ pack_calls >= 1 /\ pack_calls < MaxPackCalls
    /\ pack_calls' = pack_calls + 1
    /\ LET res == [i \in 1..Len(fs) |-> process_file_closed(fs[i], store)]
       IN  IF \A i \in 1..Len(fs) : res[i].ok
             THEN /\ SetFile(write_files_metadata(
                                patch_u64(TheFile, chunks_count_position, store_len, "pack"),
                                [i \in 1..Len(fs) |-> res[i].val], "pack"))
                  /\ files_metadata' = [i \in 1..Len(fs) |-> res[i].val]
                  /\ packResult' = Ok(disk')
                  /\ pb_pos' = IF progress_bar THEN pb_pos + Len(fs) ELSE pb_pos
                  /\ store' = store
             ELSE /\ \E i \in 1..Len(fs) :
                        /\ ~res[i].ok
                        /\ packResult' = Err(res[i].err)
                        /\ store' = store \cup res[i].entered
                  /\ UNCHANGED <<stream, wpos, wlog, wbuf, disk, files_metadata, pb_pos>>
    /\ UNCHANGED <<files, opc, wpc, woff, whashes, wres, shardLock, chan,
                   senderOpen, wtpc, wtmsg, wtResult, joined, insertSome, insertNone,
                   sent, received, progress_bar, poolVars, finished, reordered, readVars>>

\* The lists handed to a further call: none, the files of the first call, a
\* file with a chunk the store does not hold.
AgainLists == {<<>>, files, <<NewFile>>}

NextAgain ==
    \/ \E fs \in AgainLists : PackAgain(fs)
    \/ Next

SpecAgain == Init /\ [][NextAgain]_vars

\* C35: pack is one-shot.  A call of pack made after pack has returned Ok, with
\* any file list, leaves the bytes of the archive as they were or returns an
\* error; it appends no second File Table and leaves the chunk count equal to
\* the number of chunk records.
C35_PackOneShot ==
    [][(pack_calls >= 1 /\ pack_calls' > pack_calls) =>
          /\ stream' = stream \/ ~packResult'.ok
          /\ CountField' = RecordsWritten']_vars

\* C36: the count placeholder is patched only after the writer thread has
\* been joined successfully.  Whenever pack has failed, by the error or panic
\* of a process_file task or by the error of the writer thread, the count
\* field of the file still holds 0, pack has written nothing to the file, and
\* the file ends with the chunk records written so far: no File Table byte.
C36_FailureKeepsPlaceholder ==
    opc \in {"failed", "unwound"} =>
        /\ CountField = 0
        /\ \A k \in DOMAIN wlog : wlog[k][1] # "pack"
        /\ \A k \in DOMAIN wlog :
              wlog[k][1] = "writer_thread" => wlog[k][2] >= ChunkTableStart
        /\ (opc = "failed" => ~packResult.ok)

\* pack failed on the writer thread's error after a chunk record had been
\* written, and pack failed on a task's error with a chunk in the store.
C36_Witness ==
    /\ opc = "failed"
    /\ store # {}
    /\ \/ ~wtResult.ok /\ wtResult.err # "none" /\ joined /\ RecordsWritten >= 1
       \/ \E i \in Files : wpc[i] = "failed"

\* C37: an insert whose compression fails leaves the ChunkStore as it was:
\* the step returns the error Compression, the set and len() are unchanged,
\* the digest is not in the set and its shard is free again; and while the
\* digest stays out of the set no insert of the same bytes returns None, so
\* the next insert of those bytes is a first sight once more.
C37_FailedCompressNoEntry ==
    [][\A i \in Files :
          /\ (wpc[i] = "vacant" /\ wpc'[i] = "failed") =>
                /\ store' = store
                /\ Cardinality(store') = Cardinality(store)
                /\ DigestAt(i) \notin store'
                /\ shardLock'[Shard(DigestAt(i))] = 0
                /\ ~wres'[i].ok /\ wres'[i].err = "Compression"
                /\ insertSome' = insertSome /\ insertNone' = insertNone
                /\ chan' = chan
          /\ (/\ wpc[i] = "read" /\ woff[i] < Len(files[i].data)
              /\ CompressFailures(DigestAt(i)) >= 1
              /\ ~occupied(DigestAt(i))
              /\ wpc'[i] \in {"read", "vacant"}
              /\ <<wpc'[i], woff'[i]>> # <<wpc[i], woff[i]>>) =>
                /\ wpc'[i] = "vacant"
                /\ insertNone' = insertNone]_vars

\* compress failed for a chunk in one task; another task then inserted the
\* same bytes as a first sight and its record was sent; pack failed.
C37_Witness ==
    /\ opc = "failed"
    /\ \E i, j \in Files :
          /\ wpc[i] = "failed" /\ wres[i].err = "Compression"
          /\ j # i /\ wpc[j] = "done"
          /\ occupied(DigestAt(i))
          /\ insertSome[DigestAt(i)] = 1
          /\ \E k \in 1..Len(sent) : sent[k].hash = DigestAt(i)

\* ------------------- specification: several calls on one ArchiveReader

NextRepeat ==
    \/ NextUnpack
    \/ GetSummary

\* One reader of an archive on which get_summary is called any number of
\* times, before and after the one call of unpack.
SpecRepeat == InitList /\ [][NextRepeat]_vars

\* A reader opened on the archive for one call only.
FreshReader == ArchiveReaderNew(stream, running_version).val

\* C38: the operations of a reader are repeatable and independent of their
\* order.  Whatever calls came before, the fields of the reader are those
\* ArchiveReader::new computed, every summary returned is the one a reader
\* opened for that call alone returns, and the chunk map, the entries and the
\* result of unpack are those of a reader on which get_summary was never
\* called.
C38_ReaderRepeatable ==
    /\ rpc \notin {"none", "error"} => rd = FreshReader
    /\ summary.err # "none" => summary = get_summary(stream, FreshReader)
    /\ rpc \in {"chunks", "rebuild"} =>
          /\ read_chunks(stream, FreshReader).ok
          /\ chunk_map = read_chunks(stream, FreshReader).val
    /\ rpc = "rebuild" =>
          LET es == read_entries(stream, FreshReader.file_table_offset,
                                 FreshReader.file_count)
          IN  es.ok /\ entries = es.val
    /\ (rpc = "done" /\ ~unpackResult.ok /\ rcalls # <<>>) =>
          \/ ~read_chunks(stream, FreshReader).ok
          \/ ~read_entries(stream, FreshReader.file_table_offset,
                           FreshReader.file_count).ok
          \/ \E e \in DOMAIN epc : epc[e] = "missing"
    /\ (rpc = "done" /\ unpackResult.ok) =>
          /\ read_chunks(stream, FreshReader).ok
          /\ \A e \in DOMAIN entries :
                outTree[entries[e].relative_path]
                  = rebuilt_bytes(entries[e].chunk_hashes,
                                  read_chunks(stream, FreshReader).val)

\* get_summary, unpack, get_summary on one reader, all three successful, on
\* an archive with chunks and files.
C38_Witness ==
    /\ rcalls = <<"get_summary", "unpack", "get_summary">>
    /\ rpc = "done" /\ unpackResult.ok
    /\ summary.ok /\ summary.val.files # <<>>
    /\ rd.number_of_chunks > 0
    /\ rpos # rd.chunk_table_offset

\* ------------- specification: unpacking an archive with hostile paths

\* The output_dir argument of unpack: the relative directory "o".
OutputDir == <<111>>

\* Path::is_absolute and Path::join on '/'-separated byte strings: joining an
\* absolute path replaces the base.
is_absolute(p) == p # <<>> /\ p[1] = SLASH
full_path(output_dir, relative_path) ==
    IF is_absolute(relative_path) THEN relative_path
    ELSE output_dir \o <<SLASH>> \o relative_path

\* The directory walk the operating system makes for create_dir_all and
\* File::create: "" and "." stay, ".." goes up (the root is its own parent),
\* any other name goes down.
RECURSIVE walk(_, _, _)
walk(comps, stack, absolute) ==
    IF comps = <<>> THEN stack
    ELSE LET c == comps[1]
         IN  IF c = <<>> \/ c = <<DOT>> THEN walk(Tail(comps), stack, absolute)
             ELSE IF c = <<DOT, DOT>>
               THEN IF stack # <<>> /\ stack[Len(stack)] # <<DOT, DOT>>
                      THEN walk(Tail(comps), SubSeq(stack, 1, Len(stack) - 1), absolute)
                    ELSE IF absolute THEN walk(Tail(comps), stack, absolute)
                    ELSE walk(Tail(comps), Append(stack, c), absolute)
             ELSE walk(Tail(comps), Append(stack, c), absolute)

\* Where a path leads: from the root or from the working directory, and the
\* names below it.
resolve(p) == [absolute |-> is_absolute(p), comps |-> walk(split(p, SLASH), <<>>, is_absolute(p))]

\* The files rebuild_files has created, by location.
CreatedLocations == { resolve(full_path(OutputDir, k)) : k \in DOMAIN outTree }

\* The location loc is inside the directory at root.
inside(loc, root) ==
    /\ loc.absolute = root.absolute
    /\ Len(loc.comps) > Len(root.comps)
    /\ SubSeq(loc.comps, 1, Len(root.comps)) = root.comps

\* Paths of a forged file table: "a", "d/a", "/e", "../e", "d/../../e".
EscapePaths ==
    { <<97>>, <<100, SLASH, 97>>, <<SLASH, 101>>, <<DOT, DOT, SLASH, 101>>,
      <<100, SLASH, DOT, DOT, SLASH, DOT, DOT, SLASH, 101>> }

\* File tables of one or two entries, each of one chunk that the chunk table
\* holds or does not hold.
EscapeFileTables ==
    LET hss == { <<hash_chunk(<<1, 1>>)>>, <<hash_chunk(<<1, 2>>)>> }
        entry(path, hashes) == [path |-> path, size |-> CHUNK_SIZE, hashes |-> hashes]
    IN  { <<entry(p, hs)>> : p \in EscapePaths, hs \in hss }
          \cup { t \in { <<entry(p, hs), entry(q, gs)>> :
                           p \in EscapePaths, q \in EscapePaths, hs \in hss, gs \in hss } :
                   t[1].path # t[2].path }

InitEscape ==
    /\ \E now \in TimeStamps, table \in EscapeFileTables :
          PackDoneWith(ArchiveBytes(VERSION, now, 1, << <<1, 1>> >>, table))
    /\ InitRead
    /\ running_version = VERSION

\* One unpack, into the directory "o", of a well-formed archive whose file
\* table holds any paths.
SpecEscape == InitEscape /\ [][NextUnpack]_vars

\* C39: unpack confines its writes to the output root: every file it creates
\* lies inside the output directory, also for an entry whose path is absolute
\* or has parent-directory components.
C39_WritesConfined ==
    \A loc \in CreatedLocations : inside(loc, resolve(OutputDir))

\* ------- specification: indexing an archive with any compressed-length field

\* Compressed-length fields: 2^64 - 32, 2^64 - 1, 2^63 and 2^63 - 1.
WideLengths ==
    { <<224, 255, 255, 255, 255, 255, 255, 255>>,
      <<255, 255, 255, 255, 255, 255, 255, 255>>,
      <<0, 0, 0, 0, 0, 0, 0, 128>>,
      <<255, 255, 255, 255, 255, 255, 255, 127>> }

\* A chunk record whose compressed-length field is the 8 bytes given.
WideRecord(chunk, field) ==
    hash_chunk(chunk) \o u64(CHUNK_SIZE) \o field \o compress(chunk)

\* The fields of a record: the length of its payload, or any of WideLengths.
WideFields(chunk) == {u64(Len(compress(chunk)))} \cup WideLengths

\* Chunk tables of one or two records.
WideChunkTables ==
    { <<WideRecord(<<1, 1>>, f)>> : f \in WideFields(<<1, 1>>) }
      \cup { <<WideRecord(<<1, 1>>, f), WideRecord(<<1, 2>>, g)>> :
               f \in WideFields(<<1, 1>>), g \in WideFields(<<1, 2>>) }

WideFileTables ==
    { <<>>, <<[path |-> <<97>>, size |-> CHUNK_SIZE, hashes |-> <<hash_chunk(<<1, 1>>)>>]>> }

InitWide ==
    /\ \E now \in TimeStamps, records \in WideChunkTables, table \in WideFileTables :
          PackDoneWithTable(ListArchive(now, records, table), table)
    /\ InitRead
    /\ running_version = VERSION

\* ArchiveReader::new, then get_summary, on an archive file whose
\* compressed-length fields hold any 64-bit value.
SpecWide == InitWide /\ [][NextList]_vars

\* The positions at which the indexing loop of ArchiveReader::new reads a
\* record, k records left, and the position it ends at.
RECURSIVE IndexPositions(_, _, _)
IndexPositions(a, pos, k) ==
    IF k = 0 \/ ~skip_record(a, pos).ok THEN <<pos>>
    ELSE <<pos>> \o IndexPositions(a, skip_record(a, pos).val, k - 1)

\* C40: while ArchiveReader::new indexes the chunk table, each record moves
\* the position forward by exactly 16 + 8 + 8 + compressed_len, for every
\* 64-bit value of the field; the position never moves backward.
C40_IndexAdvances ==
    rpc # "none" =>
        LET ps == IndexPositions(stream, ChunkTableStart, CountField)
        IN  \A i \in 1..(Len(ps) - 1) :
               /\ ps[i + 1] > ps[i]
               /\ ps[i + 1] = ps[i] + HASH_LEN + U64_LEN + U64_LEN
                                + from_le_bytes(SubSeq(stream, ps[i] + HASH_LEN + U64_LEN + 1,
                                                       ps[i] + HASH_LEN + U64_LEN + U64_LEN))

=============================================================================
